---- MODULE Spec2Model ----
(***************************************************************************)
(* Rust International Airport: the data manager facade (bookings, seat     *)
(* inventory, pricing rules, admin session and audit log, status           *)
(* simulation) as a state machine.  Time is in seconds.  f64 amounts are   *)
(* exact decimals n / 10^e.  Strings that the code inspects character by   *)
(* character (airport codes, route patterns) are sequences of characters.  *)
(* files is the data directory: what each of the four JSON files holds.    *)
(***************************************************************************)
EXTENDS Integers, Sequences, FiniteSets, TLC

VARIABLES now, flights, aircraft, bookings, current_admin, audit_log,
          pricing_rules, system_metrics, last_simulation_update, result,
          files

vars == <<now, flights, aircraft, bookings, current_admin, audit_log,
          pricing_rules, system_metrics, last_simulation_update, result,
          files>>

(* ----------------------------- bounds ---------------------------------- *)

\* most bookings ever created in one run
MaxBookings == 2
\* most audit entries ever appended in one run
MaxLog == 2

(* ----------------------------- decimals -------------------------------- *)

RECURSIVE Norm(_)
\* canonical form of the decimal d.n / 10^d.e
Norm(d) ==
    IF d.e > 0 /\ d.n % 10 = 0 THEN Norm([n |-> d.n \div 10, e |-> d.e - 1]) ELSE d

Dec(n, e) == Norm([n |-> n, e |-> e])

RECURSIVE Pow10(_)
Pow10(k) == IF k = 0 THEN 1 ELSE 10 * Pow10(k - 1)

\* f64 multiplication a * b
DMul(a, b) == Norm([n |-> a.n * b.n, e |-> a.e + b.e])

\* f64 addition a + b
DAdd(a, b) ==
    LET e == IF a.e > b.e THEN a.e ELSE b.e
    IN  Norm([n |-> a.n * Pow10(e - a.e) + b.n * Pow10(e - b.e), e |-> e])

RECURSIVE FracDigits(_, _)
\* the k decimal digits of r / 10^k
FracDigits(r, k) ==
    IF k = 0 THEN ""
    ELSE ToString(r \div Pow10(k - 1)) \o FracDigits(r % Pow10(k - 1), k - 1)

\* f64::to_string of a decimal that is not negative: "1.5", "0.8", "1"
DecString(d) ==
    IF d.e = 0 THEN ToString(d.n)
    ELSE ToString(d.n \div Pow10(d.e)) \o "." \o FracDigits(d.n % Pow10(d.e), d.e)

One == Dec(1, 0)
Zero == Dec(0, 0)

(* ----------------------------- domains --------------------------------- *)

SeatClass == {"Economy", "Business", "FirstClass"}

None == [some |-> FALSE]
Some(v) == [some |-> TRUE, val |-> v]

OnTime == [kind |-> "OnTime", minutes |-> 0]
Delayed(m) == [kind |-> "Delayed", minutes |-> m]
Boarding == [kind |-> "Boarding", minutes |-> 0]
Departed == [kind |-> "Departed", minutes |-> 0]
Arrived == [kind |-> "Arrived", minutes |-> 0]
Cancelled == [kind |-> "Cancelled", minutes |-> 0]

LAX == <<"L", "A", "X">>
JFK == <<"J", "F", "K">>
LHR == <<"L", "H", "R">>
CDG == <<"C", "D", "G">>

\* construction time of the data manager: 07:00:00 of some day
T0 == 7 * 3600

\* the instants at which the wall clock is read
Clock == {T0, T0 + 60, T0 + 1860}

FlightIds == {"F1", "F2", "F3"}
\* an id no flight has
NoFlight == "F0"
AircraftIds == {"A1", "A2"}
Passengers == {"P1"}
\* the ticket numbers drawn here: two of the 1000000 that
\* rand::random() % 1000000 can give
Tickets == {0, 1}

\* Result<T, String>: Ok(v) with v an id (0 for the unit value), Err(message)
Ok(v) == [ok |-> TRUE, val |-> v, err |-> ""]
Err(m) == [ok |-> FALSE, val |-> 0, err |-> m]
\* the value the call of op returned
Result(op, r) == [op |-> op, ok |-> r.ok, val |-> r.val, err |-> r.err]

(* ------------------------------ Flight --------------------------------- *)

\* seats per class of a new flight: 70% economy, 25% business, rest first
NewFlightSeats(total_capacity) ==
    LET economy_seats == (total_capacity * 7) \div 10
        business_seats == (total_capacity * 25) \div 100
    IN  [c \in SeatClass |->
            CASE c = "Economy" -> economy_seats
              [] c = "Business" -> business_seats
              [] OTHER -> total_capacity - economy_seats - business_seats]

\* Flight::new
FlightNew(flight_number, origin, destination, departure_time, arrival_time, aircraft_id, total_capacity) ==
    [flight_number |-> flight_number,
     origin |-> origin,
     destination |-> destination,
     departure_time |-> departure_time,
     arrival_time |-> arrival_time,
     status |-> OnTime,
     aircraft_id |-> aircraft_id,
     seat_availability |-> NewFlightSeats(total_capacity),
     pricing |-> [base |-> [c \in SeatClass |->
                     CASE c = "Economy" -> Dec(29999, 2)
                       [] c = "Business" -> Dec(89999, 2)
                       [] OTHER -> Dec(199999, 2)],
                  dynamic_multiplier |-> One],
     total_capacity |-> total_capacity]

\* faulty variant: a flight departing at this very instant is still bookable
is_available_for_booking_at_departure(f, t) ==
    /\ f.status.kind \in {"OnTime", "Delayed"}
    /\ f.departure_time >= t

\* Flight::is_available_for_booking, the clock reading t
is_available_for_booking(f, t) ==
    /\ f.status.kind \in {"OnTime", "Delayed"}
    /\ f.departure_time > t

get_available_seats(f, class) == f.seat_availability[class]

\* faulty variant: the price of the class without the dynamic multiplier
get_price_base(f, class) == f.pricing.base[class]

\* Flight::get_price
get_price(f, class) == DMul(f.pricing.base[class], f.pricing.dynamic_multiplier)

\* the class as book_seat's error message names it
ClassName(class) ==
    CASE class = "Economy" -> "economy"
      [] class = "Business" -> "business"
      [] OTHER -> "first class"

\* faulty variant: the seat is taken from Economy whatever the class
book_seat_economy(f, class, t) ==
    IF ~ is_available_for_booking(f, t)
    THEN [res |-> Err("Flight is not available for booking"), flight |-> f]
    ELSE IF f.seat_availability[class] > 0
         THEN [res |-> Ok(0),
               flight |-> [f EXCEPT !.seat_availability["Economy"] = @ - 1]]
         ELSE [res |-> Err("No " \o ClassName(class) \o " seats available"),
               flight |-> f]

\* faulty variant: the seat is taken before the flight is found not bookable
book_seat_before_check(f, class, t) ==
    IF ~ is_available_for_booking(f, t)
    THEN [res |-> Err("Flight is not available for booking"),
          flight |-> [f EXCEPT !.seat_availability[class] = @ - 1]]
    ELSE IF f.seat_availability[class] > 0
         THEN [res |-> Ok(0),
               flight |-> [f EXCEPT !.seat_availability[class] = @ - 1]]
         ELSE [res |-> Err("No " \o ClassName(class) \o " seats available"),
               flight |-> f]

\* Flight::book_seat, the clock reading t: the result and the flight after
book_seat(f, class, t) ==
    IF ~ is_available_for_booking(f, t)
    THEN [res |-> Err("Flight is not available for booking"), flight |-> f]
    ELSE IF f.seat_availability[class] > 0
         THEN [res |-> Ok(0),
               flight |-> [f EXCEPT !.seat_availability[class] = @ - 1]]
         ELSE [res |-> Err("No " \o ClassName(class) \o " seats available"),
               flight |-> f]

\* faulty variant: a delay of zero or less takes the earlier delay off the
\* arrival time again
set_delay_reverting(f, minutes) ==
    IF minutes > 0
    THEN [f EXCEPT !.status = Delayed(minutes),
                   !.arrival_time = @ + minutes * 60]
    ELSE [f EXCEPT !.status = OnTime,
                   !.arrival_time =
                       @ - (IF f.status.kind = "Delayed" THEN f.status.minutes * 60 ELSE 0)]

\* faulty variant: a new delay takes the place of the one the status shows
set_delay_replacing(f, minutes) ==
    IF minutes > 0
    THEN [f EXCEPT !.status = Delayed(minutes),
                   !.arrival_time =
                       @ + minutes * 60
                         - (IF f.status.kind = "Delayed" THEN f.status.minutes * 60 ELSE 0)]
    ELSE [f EXCEPT !.status = OnTime]

\* faulty variant: a cancelled flight stays cancelled
set_delay_keeps_cancelled(f, minutes) ==
    IF f.status = Cancelled THEN f
    ELSE IF minutes > 0
    THEN [f EXCEPT !.status = Delayed(minutes),
                   !.arrival_time = @ + minutes * 60]
    ELSE [f EXCEPT !.status = OnTime]

\* Flight::set_delay
set_delay(f, minutes) ==
    IF minutes > 0
    THEN [f EXCEPT !.status = Delayed(minutes),
                   !.arrival_time = @ + minutes * 60]
    ELSE [f EXCEPT !.status = OnTime]

\* Flight::get_status_display (the text before the trailing pictogram)
get_status_display(f) ==
    CASE f.status.kind = "OnTime" -> "On Time"
      [] f.status.kind = "Delayed" ->
            "Delayed " \o ToString(f.status.minutes) \o " min"
      [] OTHER -> f.status.kind

\* chrono's hour() of a timestamp
Hour(t) == (t \div 3600) % 24

(* ---------------------------- PricingRule ------------------------------ *)

PricingRuleNew(id, rule_name, route_pattern, time_period, multiplier, created_by) ==
    [id |-> id,
     rule_name |-> rule_name,
     route_pattern |-> route_pattern,
     time_period |-> time_period,
     multiplier |-> multiplier,
     is_active |-> TRUE,
     created_by |-> created_by]

\* format!("{}-{}", origin, destination)
Route(origin, destination) == origin \o <<"-">> \o destination

\* str::starts_with / ends_with / contains on character sequences
StartsWith(s, p) == Len(p) <= Len(s) /\ SubSeq(s, 1, Len(p)) = p
EndsWith(s, p) == Len(p) <= Len(s) /\ SubSeq(s, Len(s) - Len(p) + 1, Len(s)) = p
Contains(s, p) ==
    \E i \in 1 .. (Len(s) - Len(p) + 1) : SubSeq(s, i, i + Len(p) - 1) = p

RECURSIVE TrimStart(_)
\* trim_start_matches('*')
TrimStart(p) == IF p # <<>> /\ Head(p) = "*" THEN TrimStart(Tail(p)) ELSE p

RECURSIVE TrimEnd(_)
\* trim_end_matches('*')
TrimEnd(p) ==
    IF p # <<>> /\ p[Len(p)] = "*" THEN TrimEnd(SubSeq(p, 1, Len(p) - 1)) ELSE p

\* faulty variant: a pattern whose only * is in the middle matches the routes
\* that start and end as the pattern does
applies_to_route_middle_star(rule, origin, destination) ==
    IF rule.route_pattern.some
    THEN LET pattern == rule.route_pattern.val
             route == Route(origin, destination)
         IN  IF \E i \in 1 .. Len(pattern) : pattern[i] = "*"
             THEN IF StartsWith(pattern, <<"*">>) /\ EndsWith(pattern, <<"*">>)
                  THEN Contains(route, TrimEnd(TrimStart(pattern)))
                  ELSE IF StartsWith(pattern, <<"*">>)
                       THEN EndsWith(route, Tail(pattern))
                       ELSE IF EndsWith(pattern, <<"*">>)
                            THEN StartsWith(route, SubSeq(pattern, 1, Len(pattern) - 1))
                            ELSE LET k == CHOOSE i \in 1 .. Len(pattern) : pattern[i] = "*"
                                 IN  /\ StartsWith(route, SubSeq(pattern, 1, k - 1))
                                     /\ EndsWith(route, SubSeq(pattern, k + 1, Len(pattern)))
             ELSE route = pattern
    ELSE TRUE

applies_to_route(rule, origin, destination) ==
    IF rule.route_pattern.some
    THEN LET pattern == rule.route_pattern.val
             route == Route(origin, destination)
         IN  IF \E i \in 1 .. Len(pattern) : pattern[i] = "*"
             THEN IF StartsWith(pattern, <<"*">>) /\ EndsWith(pattern, <<"*">>)
                  THEN Contains(route, TrimEnd(TrimStart(pattern)))
                  ELSE IF StartsWith(pattern, <<"*">>)
                       THEN EndsWith(route, Tail(pattern))
                       ELSE IF EndsWith(pattern, <<"*">>)
                            THEN StartsWith(route, SubSeq(pattern, 1, Len(pattern) - 1))
                            ELSE FALSE
             ELSE route = pattern
    ELSE TRUE

\* faulty variant: a period whose start is after its end wraps around
\* midnight
applies_to_time_wraps(rule, hour) ==
    IF rule.time_period.some
    THEN IF rule.time_period.val[1] <= rule.time_period.val[2]
         THEN hour >= rule.time_period.val[1] /\ hour <= rule.time_period.val[2]
         ELSE hour >= rule.time_period.val[1] \/ hour <= rule.time_period.val[2]
    ELSE TRUE

applies_to_time(rule, hour) ==
    IF rule.time_period.some
    THEN hour >= rule.time_period.val[1] /\ hour <= rule.time_period.val[2]
    ELSE TRUE

RECURSIVE FoldMultiplier(_, _, _, _, _)
\* the fold of get_applicable_multiplier over rules[i..], accumulator acc
FoldMultiplier(rules, i, acc, route, hour) ==
    IF i > Len(rules) THEN acc
    ELSE LET rule == rules[i]
             keep == /\ rule.is_active
                     /\ applies_to_route(rule, route[1], route[2])
                     /\ applies_to_time(rule, hour)
         IN  FoldMultiplier(rules, i + 1,
                            IF keep THEN DMul(acc, rule.multiplier) ELSE acc,
                            route, hour)

get_applicable_multiplier(rules, origin, destination, hour) ==
    FoldMultiplier(rules, 1, One, <<origin, destination>>, hour)

\* the three rules DataManager::new registers
DefaultRules ==
    << PricingRuleNew("R1", "Peak Hours Premium", None, Some(<<6, 9>>),
                      Dec(13, 1), "system"),
       PricingRuleNew("R2", "Weekend Discount", None, None, Dec(9, 1), "system"),
       PricingRuleNew("R3", "Transatlantic Premium",
                      Some(<<"*", "-", "L", "H", "R">>), None, Dec(12, 1), "system") >>

(* ------------------------------ Booking -------------------------------- *)

\* Booking::generate_ticket_number: the values rand::random() % 1000000 can
\* take; the hash of the clock's nanoseconds is any of them
generate_ticket_number == Tickets

\* faulty variant: the new booking is recorded as already checked in
BookingNewCheckedIn(id, ticket_number, flight_id, passenger, seat_class, total_amount) ==
    [id |-> id,
     ticket_number |-> ticket_number,
     flight_id |-> flight_id,
     passenger |-> passenger,
     seat_class |-> seat_class,
     status |-> "CheckedIn",
     payment |-> [total_amount |-> total_amount, payment_method |-> "Credit Card"],
     check_in_time |-> None,
     boarding_time |-> None]

\* Booking::new
BookingNew(id, ticket_number, flight_id, passenger, seat_class, total_amount) ==
    [id |-> id,
     ticket_number |-> ticket_number,
     flight_id |-> flight_id,
     passenger |-> passenger,
     seat_class |-> seat_class,
     status |-> "Confirmed",
     payment |-> [total_amount |-> total_amount, payment_method |-> "Credit Card"],
     check_in_time |-> None,
     boarding_time |-> None]

\* Booking::check_in at clock reading t
booking_check_in(b, t) ==
    IF b.status = "Confirmed"
    THEN [res |-> Ok(0),
          booking |-> [b EXCEPT !.status = "CheckedIn", !.check_in_time = Some(t)]]
    ELSE [res |-> Err("Cannot check in - booking not in confirmed status"),
          booking |-> b]

\* faulty variant: a booking that was never checked in can board
booking_board_unchecked(b, t) ==
    IF b.status \in {"Confirmed", "CheckedIn"}
    THEN [res |-> Ok(0),
          booking |-> [b EXCEPT !.status = "Boarded", !.boarding_time = Some(t)]]
    ELSE [res |-> Err("Cannot board - must be checked in first"), booking |-> b]

\* Booking::board at clock reading t
booking_board(b, t) ==
    IF b.status = "CheckedIn"
    THEN [res |-> Ok(0),
          booking |-> [b EXCEPT !.status = "Boarded", !.boarding_time = Some(t)]]
    ELSE [res |-> Err("Cannot board - must be checked in first"), booking |-> b]

\* faulty variant: a boarded booking can be cancelled too
booking_cancel_boarded(b) ==
    IF b.status \in {"Confirmed", "CheckedIn", "Boarded"}
    THEN [res |-> Ok(0), booking |-> [b EXCEPT !.status = "Cancelled"]]
    ELSE [res |-> Err("Booking already cancelled or invalid status"), booking |-> b]

\* Booking::cancel
booking_cancel(b) ==
    IF b.status \in {"Confirmed", "CheckedIn"}
    THEN [res |-> Ok(0), booking |-> [b EXCEPT !.status = "Cancelled"]]
    ELSE IF b.status \in {"Boarded", "Completed"}
         THEN [res |-> Err("Cannot cancel - flight already boarded or completed"),
               booking |-> b]
         ELSE [res |-> Err("Booking already cancelled or invalid status"),
               booking |-> b]

\* iter().position(|b| b.ticket_number == ticket_number): 0 when there is none
BookingPosition(bs, ticket_number) ==
    IF \E i \in 1 .. Len(bs) : bs[i].ticket_number = ticket_number
    THEN CHOOSE i \in 1 .. Len(bs) :
            /\ bs[i].ticket_number = ticket_number
            /\ \A j \in 1 .. (i - 1) : bs[j].ticket_number # ticket_number
    ELSE 0

\* faulty variant: the cancellation credits two seats
restore_seat_twice(f, seat_class) == [f EXCEPT !.seat_availability[seat_class] = @ + 2]

\* the seat the cancellation gives back to the flight
restore_seat(f, seat_class) == [f EXCEPT !.seat_availability[seat_class] = @ + 1]

\* Uuid::new_v4() for the next booking: distinct from every id in use
NewBookingId(bs) == Len(bs) + 1

(* --------------------------- admin, metrics ---------------------------- *)

\* the accounts AdminPanel::authenticate knows: username -> password, level
Accounts ==
    [admin |-> [password |-> "admin123", level |-> "SuperAdmin"],
     flight_mgr |-> [password |-> "flight123", level |-> "FlightManager"],
     aircraft_mgr |-> [password |-> "aircraft123", level |-> "AircraftManager"]]

\* faulty variant: any session may manage flights
can_manage_flights_any_level(admin) == admin.level = admin.level

can_manage_flights(admin) == admin.level \in {"SuperAdmin", "FlightManager"}
\* faulty variant: the aircraft manager may manage pricing too
can_manage_pricing_or_aircraft(admin) ==
    admin.level \in {"SuperAdmin", "FinanceManager", "AircraftManager"}

can_manage_pricing(admin) == admin.level \in {"SuperAdmin", "FinanceManager"}

\* AdminAction::new
AdminActionNew(admin_id, action_type, description, affected_entity_id, old_value, new_value) ==
    [admin_id |-> admin_id,
     action_type |-> action_type,
     description |-> description,
     affected_entity_id |-> affected_entity_id,
     old_value |-> old_value,
     new_value |-> new_value]

\* AdminPanel::log_action: the log after
log_action(log, admin_id, action_type, description, affected_entity_id, old_value, new_value) ==
    Append(log, AdminActionNew(admin_id, action_type, description,
                               affected_entity_id, old_value, new_value))

\* Uuid::new_v4() of the next AdminUser: one is made per successful login
NewAdminId(log) ==
    Cardinality({i \in 1 .. Len(log) : log[i].action_type = "LOGIN"}) + 1

CountFlights(fs, kinds) == Cardinality({id \in DOMAIN fs : fs[id].status.kind \in kinds})
CountAircraft(as, statuses) == Cardinality({id \in DOMAIN as : as[id].status \in statuses})

\* faulty variant: a delayed flight is not counted as an active flight
update_flight_metrics_on_time_only(m, fs) ==
    [m EXCEPT !.total_flights = Cardinality(DOMAIN fs),
              !.active_flights = CountFlights(fs, {"OnTime"}),
              !.delayed_flights = CountFlights(fs, {"Delayed"}),
              !.cancelled_flights = CountFlights(fs, {"Cancelled"})]

update_flight_metrics(m, fs) ==
    [m EXCEPT !.total_flights = Cardinality(DOMAIN fs),
              !.active_flights = CountFlights(fs, {"OnTime", "Delayed"}),
              !.delayed_flights = CountFlights(fs, {"Delayed"}),
              !.cancelled_flights = CountFlights(fs, {"Cancelled"})]

update_aircraft_metrics(m, as) ==
    [m EXCEPT !.total_aircraft = Cardinality(DOMAIN as),
              !.active_aircraft = CountAircraft(as, {"Active", "InFlight"}),
              !.aircraft_in_maintenance = CountAircraft(as, {"Maintenance"})]

SystemMetricsNew ==
    [total_flights |-> 0, active_flights |-> 0, delayed_flights |-> 0,
     cancelled_flights |-> 0, total_aircraft |-> 0, active_aircraft |-> 0,
     aircraft_in_maintenance |-> 0, total_bookings |-> 0,
     revenue_today |-> Zero, revenue_month |-> Zero]

(* ------------------------------- Init ---------------------------------- *)

\* the flights on file at start-up: RIA101 and RIA201 as Flight::new makes
\* them, RIA301 stored as Cancelled
InitialFlights ==
    [id \in FlightIds |->
        CASE id = "F1" ->
                FlightNew("RIA101", LAX, JFK, T0 + 1860, T0 + 1920, "A1", 3)
          [] id = "F2" ->
                FlightNew("RIA201", JFK, LHR, T0 + 4 * 3600, T0 + 12 * 3600, "A2", 1)
          [] OTHER ->
                [FlightNew("RIA301", LHR, CDG, T0 + 4 * 3600, T0 + 6 * 3600, "A2", 1)
                 EXCEPT !.status = Cancelled]]

\* the four files of the data directory after DataPersistence::load_all_data:
\* None stands for a file that is as it was when the data was loaded
FilesLoaded ==
    [flights |-> None, aircraft |-> None, bookings |-> None, airports |-> None]

Init ==
    /\ now = T0
    /\ flights = InitialFlights
    /\ aircraft = [id \in AircraftIds |-> [status |-> "Active"]]
    /\ bookings = <<>>
    /\ current_admin = None
    /\ audit_log = <<>>
    /\ pricing_rules = DefaultRules
    /\ system_metrics =
          [update_aircraft_metrics(update_flight_metrics(SystemMetricsNew, flights),
                                   aircraft)
           EXCEPT !.total_bookings = Len(bookings)]
    /\ last_simulation_update = now
    /\ result = Result("new", Ok(0))
    /\ files = FilesLoaded

(* --------------------------- the wall clock ---------------------------- *)

Tick ==
    /\ \E u \in Clock : u > now /\ now' = u
    /\ UNCHANGED <<flights, aircraft, bookings, current_admin, audit_log,
                   pricing_rules, system_metrics, last_simulation_update, result, files>>

(* ----------------------------- bookings -------------------------------- *)

\* final_price of create_booking for flight f and the class
final_price(f, seat_class, rules) ==
    DMul(get_price(f, seat_class),
         get_applicable_multiplier(rules, f.origin, f.destination,
                                   Hour(f.departure_time)))

\* DataManager::create_booking.  The clock is read at `now` by the
\* availability check and again, at some t2 >= now, by book_seat, which
\* works on the stored flight.
create_booking(flight_id, passenger, seat_class) ==
    /\ IF flight_id \notin DOMAIN flights
       THEN /\ result' = Result("create_booking", Err("Flight not found"))
            /\ UNCHANGED <<now, flights, bookings, system_metrics>>
       ELSE IF ~ is_available_for_booking(flights[flight_id], now)
       THEN /\ result' = Result("create_booking",
                                Err("Flight is not available for booking"))
            /\ UNCHANGED <<now, flights, bookings, system_metrics>>
       ELSE IF get_available_seats(flights[flight_id], seat_class) = 0
       THEN /\ result' = Result("create_booking",
                                Err("No seats available in the selected class"))
            /\ UNCHANGED <<now, flights, bookings, system_metrics>>
       ELSE \E t2 \in {t \in Clock : t >= now} :
              LET reserved == book_seat(flights[flight_id], seat_class, t2)
              IN  /\ now' = t2
                  /\ flights' = [flights EXCEPT ![flight_id] = reserved.flight]
                  /\ IF ~ reserved.res.ok
                     THEN /\ result' = Result("create_booking", reserved.res)
                          /\ UNCHANGED <<bookings, system_metrics>>
                     ELSE \E ticket_number \in generate_ticket_number :
                            LET price == final_price(flights[flight_id], seat_class,
                                                     pricing_rules)
                                booking == BookingNew(NewBookingId(bookings),
                                                      ticket_number, flight_id,
                                                      passenger, seat_class, price)
                            IN  /\ Len(bookings) < MaxBookings
                                /\ bookings' = Append(bookings, booking)
                                /\ system_metrics' =
                                      [system_metrics EXCEPT
                                          !.total_bookings = Len(bookings'),
                                          !.revenue_today = DAdd(@, price),
                                          !.revenue_month = DAdd(@, price)]
                                /\ result' = Result("create_booking", Ok(booking.id))
    /\ UNCHANGED <<aircraft, current_admin, audit_log, pricing_rules,
                   last_simulation_update, files>>

\* faulty variant: a cancelled booking is taken off the total_bookings metric
cancel_booking_uncounts(ticket_number) ==
    LET booking_idx == BookingPosition(bookings, ticket_number)
    IN  /\ IF booking_idx = 0
           THEN /\ result' = Result("cancel_booking", Err("Booking not found"))
                /\ UNCHANGED <<flights, bookings, system_metrics>>
           ELSE LET cancelled == booking_cancel(bookings[booking_idx])
                    flight_id == bookings[booking_idx].flight_id
                    seat_class == bookings[booking_idx].seat_class
                IN  IF ~ cancelled.res.ok
                    THEN /\ result' = Result("cancel_booking", cancelled.res)
                         /\ UNCHANGED <<flights, bookings, system_metrics>>
                    ELSE /\ bookings' = [bookings EXCEPT ![booking_idx] = cancelled.booking]
                         /\ flights' =
                               IF flight_id \in DOMAIN flights
                               THEN [flights EXCEPT ![flight_id] =
                                        restore_seat(@, seat_class)]
                               ELSE flights
                         /\ system_metrics' =
                               [system_metrics EXCEPT !.total_bookings = @ - 1]
                         /\ result' = Result("cancel_booking", Ok(0))
        /\ UNCHANGED <<now, aircraft, current_admin, audit_log, pricing_rules,
                       last_simulation_update, files>>

\* DataManager::cancel_booking
cancel_booking(ticket_number) ==
    LET booking_idx == BookingPosition(bookings, ticket_number)
    IN  /\ IF booking_idx = 0
           THEN /\ result' = Result("cancel_booking", Err("Booking not found"))
                /\ UNCHANGED <<flights, bookings>>
           ELSE LET cancelled == booking_cancel(bookings[booking_idx])
                    flight_id == bookings[booking_idx].flight_id
                    seat_class == bookings[booking_idx].seat_class
                IN  IF ~ cancelled.res.ok
                    THEN /\ result' = Result("cancel_booking", cancelled.res)
                         /\ UNCHANGED <<flights, bookings>>
                    ELSE /\ bookings' = [bookings EXCEPT ![booking_idx] = cancelled.booking]
                         /\ flights' =
                               IF flight_id \in DOMAIN flights
                               THEN [flights EXCEPT ![flight_id] =
                                        restore_seat(@, seat_class)]
                               ELSE flights
                         /\ result' = Result("cancel_booking", Ok(0))
        /\ UNCHANGED <<now, aircraft, current_admin, audit_log, pricing_rules,
                       system_metrics, last_simulation_update, files>>

\* Booking::check_in on the i-th booking of the dataset
check_in(i) ==
    LET r == booking_check_in(bookings[i], now)
    IN  /\ bookings' = [bookings EXCEPT ![i] = r.booking]
        /\ result' = Result("check_in", r.res)
        /\ UNCHANGED <<now, flights, aircraft, current_admin, audit_log,
                       pricing_rules, system_metrics, last_simulation_update, files>>

\* Booking::board on the i-th booking of the dataset
board(i) ==
    LET r == booking_board(bookings[i], now)
    IN  /\ bookings' = [bookings EXCEPT ![i] = r.booking]
        /\ result' = Result("board", r.res)
        /\ UNCHANGED <<now, flights, aircraft, current_admin, audit_log,
                       pricing_rules, system_metrics, last_simulation_update, files>>

(* ------------------------------- admin --------------------------------- *)

\* the delays the admin enters: none, and one minute
DelayInputs == {0, 1}

\* faulty variant: an unknown flight number falls back on flight F1
FindByNumber_or_first(fs, flight_number) ==
    IF \E id \in DOMAIN fs : fs[id].flight_number = flight_number
    THEN {id \in DOMAIN fs : fs[id].flight_number = flight_number}
    ELSE {"F1"}

\* iter().find(|f| f.flight_number == flight_number): the ids it can yield
FindByNumber(fs, flight_number) ==
    {id \in DOMAIN fs : fs[id].flight_number = flight_number}

\* faulty variant: a failed login ends the session that exists
authenticate_admin_drops_session(username, password) ==
    /\ IF username \in DOMAIN Accounts /\ password = Accounts[username].password
       THEN LET admin == [id |-> NewAdminId(audit_log),
                          username |-> username,
                          level |-> Accounts[username].level]
            IN  /\ Len(audit_log) < MaxLog
                /\ current_admin' = Some(admin)
                /\ audit_log' = log_action(audit_log, admin.id, "LOGIN",
                                           "User " \o username \o " logged into admin panel", None, None, None)
                /\ result' = Result("authenticate", Ok(admin.id))
       ELSE /\ result' = Result("authenticate", Err("Invalid username or password"))
            /\ current_admin' = None
            /\ UNCHANGED audit_log
    /\ UNCHANGED <<now, flights, aircraft, bookings, pricing_rules, system_metrics,
                   last_simulation_update, files>>

\* AdminPanel::authenticate through DataManager::authenticate_admin
authenticate_admin(username, password) ==
    /\ IF username \in DOMAIN Accounts /\ password = Accounts[username].password
       THEN LET admin == [id |-> NewAdminId(audit_log),
                          username |-> username,
                          level |-> Accounts[username].level]
            IN  /\ Len(audit_log) < MaxLog
                /\ current_admin' = Some(admin)
                /\ audit_log' = log_action(audit_log, admin.id, "LOGIN",
                                           "User " \o username \o " logged into admin panel", None, None, None)
                /\ result' = Result("authenticate", Ok(admin.id))
       ELSE /\ result' = Result("authenticate", Err("Invalid username or password"))
            /\ UNCHANGED <<current_admin, audit_log>>
    /\ UNCHANGED <<now, flights, aircraft, bookings, pricing_rules, system_metrics,
                   last_simulation_update, files>>

\* AdminPanel::logout through DataManager::logout_admin
logout_admin ==
    /\ IF current_admin.some
       THEN /\ Len(audit_log) < MaxLog
            /\ audit_log' = log_action(audit_log, current_admin.val.id, "LOGOUT",
                                       "User " \o current_admin.val.username
                                           \o " logged out of admin panel",
                                       None, None, None)
       ELSE UNCHANGED audit_log
    /\ current_admin' = None
    /\ result' = Result("logout", Ok(0))
    /\ UNCHANGED <<now, flights, aircraft, bookings, pricing_rules, system_metrics,
                   last_simulation_update, files>>

\* faulty variant: the audit entry gives the new status as the old one too
set_flight_delay_logs_new_status(flight_number, delay_minutes) ==
    /\ IF ~ current_admin.some
       THEN /\ result' = Result("set_flight_delay", Err("Admin authentication required"))
            /\ UNCHANGED <<flights, audit_log>>
       ELSE IF ~ can_manage_flights(current_admin.val)
       THEN /\ result' = Result("set_flight_delay",
                                Err("Insufficient permissions to manage flights"))
            /\ UNCHANGED <<flights, audit_log>>
       ELSE IF FindByNumber(flights, flight_number) = {}
       THEN /\ result' = Result("set_flight_delay", Err("Flight not found"))
            /\ UNCHANGED <<flights, audit_log>>
       ELSE \E id \in FindByNumber(flights, flight_number) :
              LET old_status == get_status_display(flights[id])
                  flight == set_delay(flights[id], delay_minutes)
                  new_status == get_status_display(flight)
              IN  /\ Len(audit_log) < MaxLog
                  /\ flights' = [flights EXCEPT ![id] = flight]
                  /\ audit_log' = log_action(audit_log, current_admin.val.id, "SET_DELAY",
                                             "Set delay for flight " \o flight_number,
                                             Some(id), Some(new_status), Some(new_status))
                  /\ result' = Result("set_flight_delay", Ok(0))
    /\ UNCHANGED <<now, aircraft, bookings, current_admin, pricing_rules,
                   system_metrics, last_simulation_update, files>>

\* DataManager::set_flight_delay
set_flight_delay(flight_number, delay_minutes) ==
    /\ IF ~ current_admin.some
       THEN /\ result' = Result("set_flight_delay", Err("Admin authentication required"))
            /\ UNCHANGED <<flights, audit_log>>
       ELSE IF ~ can_manage_flights(current_admin.val)
       THEN /\ result' = Result("set_flight_delay",
                                Err("Insufficient permissions to manage flights"))
            /\ UNCHANGED <<flights, audit_log>>
       ELSE IF FindByNumber(flights, flight_number) = {}
       THEN /\ result' = Result("set_flight_delay", Err("Flight not found"))
            /\ UNCHANGED <<flights, audit_log>>
       ELSE \E id \in FindByNumber(flights, flight_number) :
              LET old_status == get_status_display(flights[id])
                  flight == set_delay(flights[id], delay_minutes)
                  new_status == get_status_display(flight)
              IN  /\ Len(audit_log) < MaxLog
                  /\ flights' = [flights EXCEPT ![id] = flight]
                  /\ audit_log' = log_action(audit_log, current_admin.val.id, "SET_DELAY",
                                             "Set delay for flight " \o flight_number,
                                             Some(id), Some(old_status), Some(new_status))
                  /\ result' = Result("set_flight_delay", Ok(0))
    /\ UNCHANGED <<now, aircraft, bookings, current_admin, pricing_rules,
                   system_metrics, last_simulation_update, files>>

\* DataManager::set_dynamic_pricing
set_dynamic_pricing(flight_number, multiplier) ==
    /\ IF ~ current_admin.some
       THEN /\ result' = Result("set_dynamic_pricing",
                                Err("Admin authentication required"))
            /\ UNCHANGED <<flights, audit_log>>
       ELSE IF ~ can_manage_pricing(current_admin.val)
       THEN /\ result' = Result("set_dynamic_pricing",
                                Err("Insufficient permissions to manage pricing"))
            /\ UNCHANGED <<flights, audit_log>>
       ELSE IF FindByNumber(flights, flight_number) = {}
       THEN /\ result' = Result("set_dynamic_pricing", Err("Flight not found"))
            /\ UNCHANGED <<flights, audit_log>>
       ELSE \E id \in FindByNumber(flights, flight_number) :
              LET old_multiplier == flights[id].pricing.dynamic_multiplier
              IN  /\ Len(audit_log) < MaxLog
                  /\ flights' = [flights EXCEPT
                                    ![id].pricing.dynamic_multiplier = multiplier]
                  /\ audit_log' = log_action(audit_log, current_admin.val.id,
                                             "SET_PRICING",
                                             "Set pricing multiplier for flight "
                                                 \o flight_number,
                                             Some(id), Some(DecString(old_multiplier)),
                                             Some(DecString(multiplier)))
                  /\ result' = Result("set_dynamic_pricing", Ok(0))
    /\ UNCHANGED <<now, aircraft, bookings, current_admin, pricing_rules,
                   system_metrics, last_simulation_update, files>>

(* ----------------------------- simulation ------------------------------ *)

CooldownSeconds == 60
BoardingWindowMinutes == 30

\* faulty variant: an Arrived flight whose arrival time is still ahead is
\* put back to Departed
simulate_flight_status_takes_off_again(f, t) ==
    LET time_to_departure == f.departure_time - t
        time_since_departure == t - f.departure_time
        time_to_arrival == f.arrival_time - t
    IN  CASE f.status.kind \in {"OnTime", "Delayed"} ->
                IF time_to_departure <= BoardingWindowMinutes * 60 /\ time_to_departure > 0
                THEN Boarding
                ELSE IF time_since_departure >= 0 /\ time_to_arrival > 0
                     THEN Departed
                     ELSE IF time_to_arrival <= 0 THEN Arrived ELSE f.status
          [] f.status.kind = "Boarding" ->
                IF time_since_departure >= 0 THEN Departed ELSE f.status
          [] f.status.kind = "Departed" ->
                IF time_to_arrival <= 0 THEN Arrived ELSE f.status
          [] f.status.kind = "Arrived" ->
                IF time_to_arrival > 0 THEN Departed ELSE f.status
          [] OTHER -> f.status

\* faulty variant: an OnTime or Delayed flight first seen after its arrival
\* time is left as it is
simulate_flight_status_no_late_arrival(f, t) ==
    LET time_to_departure == f.departure_time - t
        time_since_departure == t - f.departure_time
        time_to_arrival == f.arrival_time - t
    IN  CASE f.status.kind \in {"OnTime", "Delayed"} ->
                IF time_to_departure <= BoardingWindowMinutes * 60 /\ time_to_departure > 0
                THEN Boarding
                ELSE IF time_since_departure >= 0 /\ time_to_arrival > 0
                     THEN Departed
                     ELSE f.status
          [] f.status.kind = "Boarding" ->
                IF time_since_departure >= 0 THEN Departed ELSE f.status
          [] f.status.kind = "Departed" ->
                IF time_to_arrival <= 0 THEN Arrived ELSE f.status
          [] OTHER -> f.status

\* faulty variant: the boarding window excludes 30 minutes exactly
simulate_flight_status_open_window(f, t) ==
    LET time_to_departure == f.departure_time - t
        time_since_departure == t - f.departure_time
        time_to_arrival == f.arrival_time - t
    IN  CASE f.status.kind \in {"OnTime", "Delayed"} ->
                IF time_to_departure < BoardingWindowMinutes * 60 /\ time_to_departure > 0
                THEN Boarding
                ELSE IF time_since_departure >= 0 /\ time_to_arrival > 0
                     THEN Departed
                     ELSE IF time_to_arrival <= 0 THEN Arrived ELSE f.status
          [] f.status.kind = "Boarding" ->
                IF time_since_departure >= 0 THEN Departed ELSE f.status
          [] f.status.kind = "Departed" ->
                IF time_to_arrival <= 0 THEN Arrived ELSE f.status
          [] OTHER -> f.status

\* faulty variant: the boarding window is 30 hours
simulate_flight_status_wide_window(f, t) ==
    LET time_to_departure == f.departure_time - t
        time_since_departure == t - f.departure_time
        time_to_arrival == f.arrival_time - t
    IN  CASE f.status.kind \in {"OnTime", "Delayed"} ->
                IF time_to_departure <= BoardingWindowMinutes * 3600 /\ time_to_departure > 0
                THEN Boarding
                ELSE IF time_since_departure >= 0 /\ time_to_arrival > 0
                     THEN Departed
                     ELSE IF time_to_arrival <= 0 THEN Arrived ELSE f.status
          [] f.status.kind = "Boarding" ->
                IF time_since_departure >= 0 THEN Departed ELSE f.status
          [] f.status.kind = "Departed" ->
                IF time_to_arrival <= 0 THEN Arrived ELSE f.status
          [] OTHER -> f.status

\* faulty variant: a Boarding flight whose arrival has passed lands at once
simulate_flight_status_boarding_lands(f, t) ==
    LET time_to_departure == f.departure_time - t
        time_since_departure == t - f.departure_time
        time_to_arrival == f.arrival_time - t
    IN  CASE f.status.kind \in {"OnTime", "Delayed"} ->
                IF time_to_departure <= BoardingWindowMinutes * 60 /\ time_to_departure > 0
                THEN Boarding
                ELSE IF time_since_departure >= 0 /\ time_to_arrival > 0
                     THEN Departed
                     ELSE IF time_to_arrival <= 0 THEN Arrived ELSE f.status
          [] f.status.kind = "Boarding" ->
                IF time_to_arrival <= 0 THEN Arrived
                ELSE IF time_since_departure >= 0 THEN Departed ELSE f.status
          [] f.status.kind = "Departed" ->
                IF time_to_arrival <= 0 THEN Arrived ELSE f.status
          [] OTHER -> f.status

\* faulty variant: a Cancelled flight is advanced like a Departed one
simulate_flight_status_cancelled_lands(f, t) ==
    LET time_to_departure == f.departure_time - t
        time_since_departure == t - f.departure_time
        time_to_arrival == f.arrival_time - t
    IN  CASE f.status.kind \in {"OnTime", "Delayed"} ->
                IF time_to_departure <= BoardingWindowMinutes * 60 /\ time_to_departure > 0
                THEN Boarding
                ELSE IF time_since_departure >= 0 /\ time_to_arrival > 0
                     THEN Departed
                     ELSE IF time_to_arrival <= 0 THEN Arrived ELSE f.status
          [] f.status.kind = "Boarding" ->
                IF time_since_departure >= 0 THEN Departed ELSE f.status
          [] f.status.kind \in {"Departed", "Cancelled"} ->
                IF time_to_arrival <= 0 THEN Arrived ELSE f.status
          [] OTHER -> f.status

\* the status update_simulation gives flight f at clock reading t
simulate_flight_status(f, t) ==
    LET time_to_departure == f.departure_time - t
        time_since_departure == t - f.departure_time
        time_to_arrival == f.arrival_time - t
    IN  CASE f.status.kind \in {"OnTime", "Delayed"} ->
                IF time_to_departure <= BoardingWindowMinutes * 60 /\ time_to_departure > 0
                THEN Boarding
                ELSE IF time_since_departure >= 0 /\ time_to_arrival > 0
                     THEN Departed
                     ELSE IF time_to_arrival <= 0 THEN Arrived ELSE f.status
          [] f.status.kind = "Boarding" ->
                IF time_since_departure >= 0 THEN Departed ELSE f.status
          [] f.status.kind = "Departed" ->
                IF time_to_arrival <= 0 THEN Arrived ELSE f.status
          [] OTHER -> f.status

\* faulty variant: the aircraft follow the flights as they were before the run
simulate_aircraft_status_stale(id, a, fs) ==
    LET has_active_flight ==
            \E f \in DOMAIN flights : /\ flights[f].aircraft_id = id
                                      /\ flights[f].status.kind \in {"Boarding", "Departed"}
    IN  CASE a.status = "Active" -> IF has_active_flight THEN "InFlight" ELSE a.status
          [] a.status = "InFlight" -> IF ~ has_active_flight THEN "Active" ELSE a.status
          [] OTHER -> a.status

\* faulty variant: an aircraft in maintenance is put in flight as well
simulate_aircraft_status_from_maintenance(id, a, fs) ==
    LET has_active_flight ==
            \E f \in DOMAIN fs : /\ fs[f].aircraft_id = id
                                 /\ fs[f].status.kind \in {"Boarding", "Departed"}
    IN  CASE a.status \in {"Active", "Maintenance"} ->
                IF has_active_flight THEN "InFlight" ELSE a.status
          [] a.status = "InFlight" -> IF ~ has_active_flight THEN "Active" ELSE a.status
          [] OTHER -> a.status

\* the status update_simulation gives the aircraft, the flights as updated
simulate_aircraft_status(id, a, fs) ==
    LET has_active_flight ==
            \E f \in DOMAIN fs : /\ fs[f].aircraft_id = id
                                 /\ fs[f].status.kind \in {"Boarding", "Departed"}
    IN  CASE a.status = "Active" -> IF has_active_flight THEN "InFlight" ELSE a.status
          [] a.status = "InFlight" -> IF ~ has_active_flight THEN "Active" ELSE a.status
          [] OTHER -> a.status

\* faulty variant: a poll inside the cooldown restarts the cooldown
update_simulation_restarts_cooldown ==
    /\ IF now - last_simulation_update < CooldownSeconds
       THEN /\ UNCHANGED <<flights, aircraft, system_metrics>>
            /\ last_simulation_update' = now
       ELSE LET fs == [id \in DOMAIN flights |->
                          [flights[id] EXCEPT
                              !.status = simulate_flight_status(flights[id], now)]]
                as == [id \in DOMAIN aircraft |->
                          [aircraft[id] EXCEPT
                              !.status = simulate_aircraft_status(id, aircraft[id], fs)]]
                updates_made == fs # flights \/ as # aircraft
            IN  /\ flights' = fs
                /\ aircraft' = as
                /\ system_metrics' =
                      IF updates_made
                      THEN update_aircraft_metrics(
                               update_flight_metrics(system_metrics, fs), as)
                      ELSE system_metrics
                /\ last_simulation_update' = now
    /\ result' = Result("update_simulation", Ok(0))
    /\ UNCHANGED <<now, bookings, current_admin, audit_log, pricing_rules, files>>

\* faulty variant: a call exactly 60 seconds after the last run is skipped
update_simulation_after_cooldown ==
    /\ IF now - last_simulation_update <= CooldownSeconds
       THEN UNCHANGED <<flights, aircraft, system_metrics, last_simulation_update>>
       ELSE LET fs == [id \in DOMAIN flights |->
                          [flights[id] EXCEPT
                              !.status = simulate_flight_status(flights[id], now)]]
                as == [id \in DOMAIN aircraft |->
                          [aircraft[id] EXCEPT
                              !.status = simulate_aircraft_status(id, aircraft[id], fs)]]
                updates_made == fs # flights \/ as # aircraft
            IN  /\ flights' = fs
                /\ aircraft' = as
                /\ system_metrics' =
                      IF updates_made
                      THEN update_aircraft_metrics(
                               update_flight_metrics(system_metrics, fs), as)
                      ELSE system_metrics
                /\ last_simulation_update' = now
    /\ result' = Result("update_simulation", Ok(0))
    /\ UNCHANGED <<now, bookings, current_admin, audit_log, pricing_rules, files>>

\* faulty variant: a run puts every flight's dynamic multiplier back to 1
update_simulation_resets_prices ==
    /\ IF now - last_simulation_update < CooldownSeconds
       THEN UNCHANGED <<flights, aircraft, system_metrics, last_simulation_update>>
       ELSE LET fs == [id \in DOMAIN flights |->
                          [flights[id] EXCEPT
                              !.status = simulate_flight_status(flights[id], now),
                              !.pricing.dynamic_multiplier = One]]
                as == [id \in DOMAIN aircraft |->
                          [aircraft[id] EXCEPT
                              !.status = simulate_aircraft_status(id, aircraft[id], fs)]]
                updates_made == fs # flights \/ as # aircraft
            IN  /\ flights' = fs
                /\ aircraft' = as
                /\ system_metrics' =
                      IF updates_made
                      THEN update_aircraft_metrics(
                               update_flight_metrics(system_metrics, fs), as)
                      ELSE system_metrics
                /\ last_simulation_update' = now
    /\ result' = Result("update_simulation", Ok(0))
    /\ UNCHANGED <<now, bookings, current_admin, audit_log, pricing_rules, files>>

\* DataManager::update_simulation
update_simulation ==
    /\ IF now - last_simulation_update < CooldownSeconds
       THEN UNCHANGED <<flights, aircraft, system_metrics, last_simulation_update>>
       ELSE LET fs == [id \in DOMAIN flights |->
                          [flights[id] EXCEPT
                              !.status = simulate_flight_status(flights[id], now)]]
                as == [id \in DOMAIN aircraft |->
                          [aircraft[id] EXCEPT
                              !.status = simulate_aircraft_status(id, aircraft[id], fs)]]
                updates_made == fs # flights \/ as # aircraft
            IN  /\ flights' = fs
                /\ aircraft' = as
                /\ system_metrics' =
                      IF updates_made
                      THEN update_aircraft_metrics(
                               update_flight_metrics(system_metrics, fs), as)
                      ELSE system_metrics
                /\ last_simulation_update' = now
    /\ result' = Result("update_simulation", Ok(0))
    /\ UNCHANGED <<now, bookings, current_admin, audit_log, pricing_rules, files>>

(* --------------------------- specification ----------------------------- *)

\* a booking request for any flight id, an unknown one included
CreateBooking ==
    \E flight_id \in FlightIds \cup {NoFlight}, passenger \in Passengers,
       seat_class \in SeatClass :
       create_booking(flight_id, passenger, seat_class)

\* a booking request for flight RIA101, or for an unknown flight id
CreateBookingRIA101 ==
    \E flight_id \in {"F1", NoFlight}, passenger \in Passengers,
       seat_class \in SeatClass :
       create_booking(flight_id, passenger, seat_class)

CancelBooking == \E ticket_number \in Tickets : cancel_booking(ticket_number)

CheckIn == \E i \in 1 .. Len(bookings) : check_in(i)

Board == \E i \in 1 .. Len(bookings) : board(i)

\* the menu's admin panel asks for credentials only when no session exists
\* (ui/menu.rs:431); here the super admin signs in
AdminLogin == ~ current_admin.some /\ authenticate_admin("admin", "admin123")

SetDelay == \E delay_minutes \in DelayInputs : set_flight_delay("RIA101", delay_minutes)

SetPricing == set_dynamic_pricing("RIA101", Dec(15, 1))

\* flight RIA101 booked and cancelled while the simulator runs and the admin
\* sets its delay and its price
Next ==
    \/ Tick
    \/ CreateBookingRIA101
    \/ CancelBooking
    \/ AdminLogin
    \/ SetDelay
    \/ SetPricing
    \/ update_simulation

Spec == Init /\ [][Next]_vars

\* bookings made on every flight while the simulator runs and the admin sets
\* delays and prices
SpecCreate ==
    Init /\ [][Tick \/ CreateBooking \/ AdminLogin \/ SetDelay
               \/ SetPricing \/ update_simulation]_vars

\* the life cycle of the bookings of flight RIA101: check-in, boarding and
\* cancellation, the simulator polled in between
SpecLifecycle ==
    Init /\ [][CreateBookingRIA101 \/ CancelBooking \/ CheckIn \/ Board
               \/ update_simulation]_vars

(* ------------------------ seat inventory (C1, C2) ---------------------- *)

SeatSum(f) ==
    f.seat_availability["Economy"] + f.seat_availability["Business"]
        + f.seat_availability["FirstClass"]

\* C1: in every reachable state each flight's Economy, Business and
\* FirstClass available-seat counts are >= 0 and their sum is at most the
\* flight's total_capacity.
C1_SeatInventoryWithinCapacity ==
    \A id \in DOMAIN flights :
        /\ \A c \in SeatClass : flights[id].seat_availability[c] >= 0
        /\ SeatSum(flights[id]) <= flights[id].total_capacity

\* a booking was cancelled while another one holds a seat on a flight whose
\* delay the admin has set
C1_Witness ==
    /\ \E i \in 1 .. Len(bookings) : bookings[i].status = "Cancelled"
    /\ \E i \in 1 .. Len(bookings) : bookings[i].status = "Confirmed"
    /\ flights["F1"].status.kind = "Delayed"
    /\ SeatSum(flights["F1"]) < flights["F1"].total_capacity

\* the bookings that hold a seat of the class on the flight
LiveBookings(id, c) ==
    {i \in 1 .. Len(bookings) :
        /\ bookings[i].flight_id = id
        /\ bookings[i].seat_class = c
        /\ bookings[i].status # "Cancelled"}

\* C2: for every flight and class, the seats the flight was created with
\* minus the seats now available is the number of bookings of that flight
\* and class that are not Cancelled.
C2_SeatsHeldMatchLiveBookings ==
    \A id \in DOMAIN flights : \A c \in SeatClass :
        NewFlightSeats(flights[id].total_capacity)[c] - flights[id].seat_availability[c]
            = Cardinality(LiveBookings(id, c))

\* one booking is checked in and holds its seat, another was cancelled
C2_Witness ==
    /\ \E i \in 1 .. Len(bookings) : bookings[i].status = "CheckedIn"
    /\ \E i \in 1 .. Len(bookings) : bookings[i].status = "Cancelled"

(* ----------------------- booking life cycle (C3) ----------------------- *)

AllowedStatusChanges ==
    { <<"Confirmed", "CheckedIn">>, <<"CheckedIn", "Boarded">>,
      <<"Boarded", "Completed">>, <<"Confirmed", "Cancelled">>,
      <<"CheckedIn", "Cancelled">> }

\* C3: every change of a booking's status is Confirmed->CheckedIn,
\* CheckedIn->Boarded, Boarded->Completed, Confirmed->Cancelled or
\* CheckedIn->Cancelled; bookings are never dropped from the list.
C3_StatusMovesForward ==
    [][ /\ Len(bookings') >= Len(bookings)
        /\ \A i \in 1 .. Len(bookings) :
              \/ bookings'[i].status = bookings[i].status
              \/ <<bookings[i].status, bookings'[i].status>> \in AllowedStatusChanges
      ]_vars

\* a booking went Confirmed -> CheckedIn -> Boarded, another one
\* Confirmed -> CheckedIn -> Cancelled
C3_Witness ==
    /\ \E i \in 1 .. Len(bookings) : bookings[i].status = "Boarded"
    /\ \E i \in 1 .. Len(bookings) :
          bookings[i].status = "Cancelled" /\ bookings[i].check_in_time.some

(* ------------------------ create_booking (C4-C7) ----------------------- *)

CreateInputs == (FlightIds \cup {NoFlight}) \X Passengers \X SeatClass

SeatsOf(fs) == [id \in DOMAIN fs |-> fs[id].seat_availability]

\* C4: a create_booking that returns an error leaves every flight's seat
\* counts, the booking list and the metrics total_bookings, revenue_today
\* and revenue_month as they were.
C4_FailedCreateChangesNothing ==
    [][ \A in \in CreateInputs :
          (create_booking(in[1], in[2], in[3]) /\ ~ result'.ok)
          => /\ SeatsOf(flights') = SeatsOf(flights)
             /\ bookings' = bookings
             /\ Len(bookings') = Len(bookings)
             /\ system_metrics'.total_bookings = system_metrics.total_bookings
             /\ system_metrics'.revenue_today = system_metrics.revenue_today
             /\ system_metrics'.revenue_month = system_metrics.revenue_month
      ]_vars

\* a create_booking failed after an earlier one had taken a seat: the clock
\* is at the departure time of a flight the simulator has not yet advanced
C4_Witness ==
    /\ result.op = "create_booking" /\ ~ result.ok
    /\ result.err = "Flight is not available for booking"
    /\ flights["F1"].status.kind = "OnTime"
    /\ now >= flights["F1"].departure_time
    /\ Len(bookings) > 0

\* the four reasons for a create_booking to fail, the clock reading t
CreateMustFail(flight_id, seat_class, t) ==
    \/ flight_id \notin DOMAIN flights
    \/ /\ flight_id \in DOMAIN flights
       /\ \/ flights[flight_id].status.kind \notin {"OnTime", "Delayed"}
          \/ ~ (flights[flight_id].departure_time > t)
          \/ flights[flight_id].seat_availability[seat_class] = 0

\* C5 as stated: create_booking returns an error if and only if no flight
\* has the id, or the flight is not OnTime or Delayed, or its departure time
\* is not strictly after the current time (the time of the call), or no seat
\* of the class is left.
C5_ErrorIffAtCallTime ==
    [][ \A in \in CreateInputs :
          create_booking(in[1], in[2], in[3])
          => (~ result'.ok <=> CreateMustFail(in[1], in[3], now))
      ]_vars

\* C5 as amended: the same, with the departure time compared to the clock
\* as the seat reservation reads it, which is the time the call returns;
\* and no booking is created on a flight that is not OnTime or Delayed.
C5_ErrorIffAtReservationTime ==
    [][ \A in \in CreateInputs :
          create_booking(in[1], in[2], in[3])
          => /\ ~ result'.ok <=> CreateMustFail(in[1], in[3], now')
             /\ result'.ok => flights[in[1]].status.kind \in {"OnTime", "Delayed"}
      ]_vars

\* a create_booking succeeded on a delayed flight, and a later one failed
C5_Witness ==
    /\ result.op = "create_booking" /\ ~ result.ok
    /\ \E i \in 1 .. Len(bookings) :
          flights[bookings[i].flight_id].status.kind = "Delayed"

\* C6: a successful create_booking takes exactly one seat of the requested
\* class on the addressed flight, leaves every other counter alone, appends
\* one Confirmed booking of that flight and class, and returns its id.
C6_SuccessfulCreateEffects ==
    [][ \A in \in CreateInputs :
          (create_booking(in[1], in[2], in[3]) /\ result'.ok)
          => /\ SeatsOf(flights') =
                   [SeatsOf(flights) EXCEPT ![in[1]][in[3]] = @ - 1]
             /\ Len(bookings') = Len(bookings) + 1
             /\ SubSeq(bookings', 1, Len(bookings)) = bookings
             /\ bookings'[Len(bookings')].status = "Confirmed"
             /\ bookings'[Len(bookings')].flight_id = in[1]
             /\ bookings'[Len(bookings')].seat_class = in[3]
             /\ result'.val = bookings'[Len(bookings')].id
             /\ \A i \in 1 .. Len(bookings) : bookings[i].id # result'.val
      ]_vars

\* a second booking was created, in FirstClass, while the first holds a seat
C6_Witness ==
    /\ result.op = "create_booking" /\ result.ok
    /\ Len(bookings) = 2
    /\ bookings[2].seat_class = "FirstClass"
    /\ bookings[1].status = "Confirmed"

\* the rules that are active and match the route and the hour
MatchingRules(rules, origin, destination, hour) ==
    {i \in 1 .. Len(rules) :
        /\ rules[i].is_active
        /\ applies_to_route(rules[i], origin, destination)
        /\ applies_to_time(rules[i], hour)}

RECURSIVE ProductOf(_, _)
\* the product of the multipliers of the rules whose indices are in S
ProductOf(rules, S) ==
    IF S = {} THEN One
    ELSE LET i == CHOOSE k \in S : TRUE
         IN  DMul(rules[i].multiplier, ProductOf(rules, S \ {i}))

\* base_price(class) * applicable_multiplier(origin, destination, hour)
RulePrice(f, seat_class, rules) ==
    DMul(f.pricing.base[seat_class],
         ProductOf(rules, MatchingRules(rules, f.origin, f.destination,
                                        Hour(f.departure_time))))

\* C7 as stated: the amount of a new booking, which is what the revenue
\* grows by, is base_price(class) * applicable_multiplier(...), whatever the
\* flight's dynamic multiplier.
C7_PriceIgnoresDynamicMultiplier ==
    [][ \A in \in CreateInputs :
          (create_booking(in[1], in[2], in[3]) /\ result'.ok)
          => bookings'[Len(bookings')].payment.total_amount
                = RulePrice(flights[in[1]], in[3], pricing_rules)
      ]_vars

\* C7 as amended: the amount is base_price(class) * the flight's dynamic
\* multiplier * applicable_multiplier(...), and revenue_today and
\* revenue_month grow by it; 299.99 under the single rule x1.3 at hour 7
\* and dynamic multiplier 1 is 389.987.
C7_PriceIncludesDynamicMultiplier ==
    /\ final_price(InitialFlights["F1"], "Economy", <<DefaultRules[1]>>)
          = Dec(389987, 3)
    /\ [][ \A in \in CreateInputs :
             (create_booking(in[1], in[2], in[3]) /\ result'.ok)
             => LET amount == bookings'[Len(bookings')].payment.total_amount
                IN  /\ amount = DMul(flights[in[1]].pricing.dynamic_multiplier,
                                     RulePrice(flights[in[1]], in[3], pricing_rules))
                    /\ system_metrics'.revenue_today
                          = DAdd(system_metrics.revenue_today, amount)
                    /\ system_metrics'.revenue_month
                          = DAdd(system_metrics.revenue_month, amount)
         ]_vars

\* an Economy seat of RIA101 was sold with the dynamic multiplier at 1.5:
\* 299.99 * 1.5 * 1.3 * 0.9 = 526.48245
C7_Witness ==
    /\ result.op = "create_booking" /\ result.ok
    /\ flights["F1"].pricing.dynamic_multiplier = Dec(15, 1)
    /\ bookings[Len(bookings)].flight_id = "F1"
    /\ bookings[Len(bookings)].payment.total_amount = Dec(52648245, 5)

(* --------------------- tickets, cancellation (C8-C10) ------------------ *)

\* C8: no two bookings of the dataset have the same ticket number.
C8_TicketNumbersUnique ==
    \A i, j \in 1 .. Len(bookings) :
        i # j => bookings[i].ticket_number # bookings[j].ticket_number

\* C9: cancel_booking with the ticket of a booking that is Confirmed or
\* CheckedIn succeeds, makes that booking Cancelled and gives exactly one
\* seat back to the booking's class on the booking's flight.
C9_CancelOfLiveBookingSucceeds ==
    [][ \A t \in Tickets : \A i \in 1 .. Len(bookings) :
          ( /\ cancel_booking(t)
            /\ bookings[i].ticket_number = t
            /\ bookings[i].status \in {"Confirmed", "CheckedIn"} )
          => /\ result'.ok
             /\ bookings'[i].status = "Cancelled"
             /\ SeatsOf(flights') =
                   [SeatsOf(flights) EXCEPT
                       ![bookings[i].flight_id][bookings[i].seat_class] = @ + 1]
      ]_vars

\* C10: right after a successful create_booking, cancel_booking with the new
\* booking's ticket cancels that booking and brings the seat count of its
\* flight and class back to what it was before the booking; cancel_booking
\* with the ticket of a Cancelled booking returns an error and credits no
\* seat.
C10_BookingRoundTrip ==
    [][ \A t \in Tickets :
          cancel_booking(t)
          => /\ ( /\ result.op = "create_booking" /\ result.ok
                  /\ bookings[Len(bookings)].ticket_number = t )
                => LET b == bookings[Len(bookings)]
                   IN  /\ result'.ok
                       /\ bookings'[Len(bookings)].status = "Cancelled"
                       /\ flights'[b.flight_id].seat_availability[b.seat_class]
                             = flights[b.flight_id].seat_availability[b.seat_class] + 1
             /\ ( \E i \in 1 .. Len(bookings) :
                     bookings[i].ticket_number = t /\ bookings[i].status = "Cancelled" )
                => ~ result'.ok /\ SeatsOf(flights') = SeatsOf(flights)
      ]_vars

(* ------------------- a stored dataset at the desk ---------------------- *)

\* BookingStatus
BookingStatuses ==
    {"Confirmed", "CheckedIn", "Boarded", "Completed", "Cancelled", "NoShow"}

\* a booking of flight RIA101 as load_bookings reads it from the bookings
\* file: any status, with the timestamps of the steps the status implies,
\* taken an hour before this run
StoredBooking(id, ticket_number, status) ==
    [BookingNew(id, ticket_number, "F1", "P1", "Economy",
                final_price(InitialFlights["F1"], "Economy", DefaultRules))
     EXCEPT !.status = status,
            !.check_in_time =
                IF status \in {"CheckedIn", "Boarded", "Completed"}
                THEN Some(T0 - 3600) ELSE None,
            !.boarding_time =
                IF status \in {"Boarded", "Completed"}
                THEN Some(T0 - 3600) ELSE None]

\* DataManager::new over a data directory that holds bookings of RIA101;
\* the Economy seats of bookings that are not Cancelled are taken
InitStored ==
    /\ now = T0
    /\ \E n \in 1 .. MaxBookings :
          \E row \in [1 .. n -> Tickets \X BookingStatuses] :
             /\ bookings = [i \in 1 .. n |-> StoredBooking(i, row[i][1], row[i][2])]
             /\ LET held == Cardinality({i \in 1 .. n : row[i][2] # "Cancelled"})
                IN  /\ held <= InitialFlights["F1"].seat_availability["Economy"]
                    /\ flights = [InitialFlights EXCEPT
                                     !["F1"].seat_availability["Economy"] = @ - held]
    /\ aircraft = [id \in AircraftIds |-> [status |-> "Active"]]
    /\ current_admin = None
    /\ audit_log = <<>>
    /\ pricing_rules = DefaultRules
    /\ system_metrics =
          [update_aircraft_metrics(update_flight_metrics(SystemMetricsNew, flights),
                                   aircraft)
           EXCEPT !.total_bookings = Len(bookings)]
    /\ last_simulation_update = now
    /\ result = Result("new", Ok(0))
    /\ files = FilesLoaded

\* the stored bookings of RIA101 checked in, boarded and cancelled
SpecStored ==
    InitStored /\ [][CancelBooking \/ CheckIn \/ Board]_vars

(* ---------------------- failed cancellation (C11) ---------------------- *)

\* C11: cancel_booking returns an error and changes no booking and no seat
\* counter of any flight when no booking has the ticket number, or when the
\* booking that has it is Boarded, Completed, Cancelled or NoShow.
C11_FailedCancelChangesNothing ==
    [][ \A t \in Tickets :
          ( /\ cancel_booking(t)
            /\ \/ \A i \in 1 .. Len(bookings) : bookings[i].ticket_number # t
               \/ \E i \in 1 .. Len(bookings) :
                     /\ bookings[i].ticket_number = t
                     /\ bookings[i].status
                           \in {"Boarded", "Completed", "Cancelled", "NoShow"} )
          => /\ ~ result'.ok
             /\ bookings' = bookings
             /\ SeatsOf(flights') = SeatsOf(flights)
      ]_vars

(* ----------------------- check-in, boarding (C12) ---------------------- *)

\* C12: check_in succeeds exactly on a Confirmed booking, making it
\* CheckedIn with the check-in time set; board succeeds exactly on a
\* CheckedIn booking, making it Boarded with the boarding time set; a call
\* that fails leaves the booking's status, check_in_time and boarding_time
\* as they were; and every Boarded booking has a check-in time.
C12_CheckInThenBoard ==
    /\ [][ \A i \in 1 .. Len(bookings) :
             /\ check_in(i)
                => /\ result'.ok <=> bookings[i].status = "Confirmed"
                   /\ result'.ok => /\ bookings'[i].status = "CheckedIn"
                                    /\ bookings'[i].check_in_time = Some(now)
                                    /\ bookings'[i].boarding_time = bookings[i].boarding_time
                   /\ ~ result'.ok => bookings'[i] = bookings[i]
             /\ board(i)
                => /\ result'.ok <=> bookings[i].status = "CheckedIn"
                   /\ result'.ok => /\ bookings'[i].status = "Boarded"
                                    /\ bookings'[i].boarding_time = Some(now)
                                    /\ bookings'[i].check_in_time = bookings[i].check_in_time
                   /\ ~ result'.ok => bookings'[i] = bookings[i]
         ]_vars
    /\ [](\A i \in 1 .. Len(bookings) :
             bookings[i].status = "Boarded" => bookings[i].check_in_time.some)

\* a stored Confirmed booking was checked in and boarded in this run, and
\* the last call, on a booking that is not CheckedIn, failed
C12_Witness ==
    /\ \E i \in 1 .. Len(bookings) :
          /\ bookings[i].status = "Boarded"
          /\ bookings[i].check_in_time = Some(T0)
          /\ bookings[i].boarding_time = Some(T0)
    /\ result.op = "board" /\ ~ result.ok
    /\ \E i \in 1 .. Len(bookings) : bookings[i].status \in {"Completed", "NoShow"}

(* --------------------------- admin sessions ---------------------------- *)

\* AdminPanel::add_pricing_rule
add_pricing_rule(rule) ==
    /\ IF current_admin.some
       THEN IF ~ can_manage_pricing(current_admin.val)
            THEN /\ result' = Result("add_pricing_rule",
                                     Err("Insufficient permissions to manage pricing"))
                 /\ UNCHANGED <<audit_log, pricing_rules>>
            ELSE /\ Len(audit_log) < MaxLog
                 /\ audit_log' = log_action(audit_log, current_admin.val.id,
                                            "ADD_PRICING_RULE",
                                            "Added pricing rule: " \o rule.rule_name,
                                            Some(rule.id), None,
                                            Some("Multiplier: "
                                                     \o DecString(rule.multiplier)))
                 /\ pricing_rules' = Append(pricing_rules, rule)
                 /\ result' = Result("add_pricing_rule", Ok(0))
       ELSE /\ result' = Result("add_pricing_rule", Err("No admin user logged in"))
            /\ UNCHANGED <<audit_log, pricing_rules>>
    /\ UNCHANGED <<now, flights, aircraft, bookings, current_admin, system_metrics,
                   last_simulation_update, files>>

\* the credentials typed at the admin prompt: the three accounts, and a
\* wrong password
Credentials ==
    { <<"admin", "admin123">>, <<"flight_mgr", "flight123">>,
      <<"aircraft_mgr", "aircraft123">>, <<"admin", "admin">> }

\* the flight numbers the admin types: one on file, one unknown
FlightNumbers == {"RIA101", "RIA999"}

\* the admin panel asks for credentials when no session exists
AdminLoginAs ==
    /\ ~ current_admin.some
    /\ \E c \in Credentials : authenticate_admin(c[1], c[2])

\* option 0 of the admin panel
Logout == current_admin.some /\ logout_admin

\* a caller of the library stores a session of any level:
\* AdminPanel.current_admin is a public field, AdminUser::new takes any level
StoreSession ==
    /\ \E level \in {"SuperAdmin", "FlightManager", "AircraftManager",
                     "FinanceManager", "Viewer"} :
          current_admin' = Some([id |-> NewAdminId(audit_log),
                                 username |-> "user",
                                 level |-> level])
    /\ UNCHANGED <<now, flights, aircraft, bookings, audit_log, pricing_rules,
                   system_metrics, last_simulation_update, result, files>>

SetDelayOf ==
    \E flight_number \in FlightNumbers, delay_minutes \in DelayInputs :
       set_flight_delay(flight_number, delay_minutes)

SetPricingOf ==
    \E flight_number \in FlightNumbers : set_dynamic_pricing(flight_number, Dec(15, 1))

\* a rule for every route and hour, x1.1, with an id of its own
AddPricingRule ==
    add_pricing_rule(PricingRuleNew("R" \o ToString(Len(pricing_rules) + 1),
                                    "Fuel Surcharge", None, None, Dec(11, 1), "system"))

\* sessions of every level opened and closed, each trying the privileged
\* operations
SpecAdmin ==
    Init /\ [][AdminLoginAs \/ Logout \/ StoreSession \/ SetDelayOf
               \/ SetPricingOf \/ AddPricingRule]_vars

(* -------------------- capability gating (C13, C14) --------------------- *)

\* the session, if any, has one of the levels
SessionIn(levels) == current_admin.some /\ current_admin.val.level \in levels

\* the step changed no flight, no pricing rule and no audit entry
NothingAdministered ==
    /\ flights' = flights
    /\ pricing_rules' = pricing_rules
    /\ audit_log' = audit_log
    /\ Len(audit_log') = Len(audit_log)

\* C13: set_flight_delay without a session, or with one that is neither
\* SuperAdmin nor FlightManager, and set_dynamic_pricing and
\* add_pricing_rule without a session, or with one that is neither
\* SuperAdmin nor FinanceManager, return an error and leave every flight,
\* the pricing rules and the audit log, its length included, unchanged.
C13_DeniedCallsChangeNothing ==
    [][ /\ \A fn \in FlightNumbers, d \in DelayInputs :
             (set_flight_delay(fn, d) /\ ~ SessionIn({"SuperAdmin", "FlightManager"}))
             => ~ result'.ok /\ NothingAdministered
        /\ \A fn \in FlightNumbers :
             ( /\ set_dynamic_pricing(fn, Dec(15, 1))
               /\ ~ SessionIn({"SuperAdmin", "FinanceManager"}) )
             => ~ result'.ok /\ NothingAdministered
        /\ (AddPricingRule /\ ~ SessionIn({"SuperAdmin", "FinanceManager"}))
             => ~ result'.ok /\ NothingAdministered
      ]_vars

\* a Viewer's set_flight_delay was refused after the log had got an entry
C13_Witness ==
    /\ SessionIn({"Viewer"})
    /\ result.op = "set_flight_delay" /\ ~ result.ok
    /\ result.err = "Insufficient permissions to manage flights"
    /\ Len(audit_log) > 0

\* C14: a step of set_flight_delay changes a flight's status or arrival
\* time only under a SuperAdmin or FlightManager session; a step of
\* set_dynamic_pricing or add_pricing_rule changes a dynamic multiplier or
\* the pricing rules only under a SuperAdmin or FinanceManager session.
C14_OnlyCapableRolesAdminister ==
    [][ /\ ( /\ result'.op = "set_flight_delay"
              /\ \E id \in DOMAIN flights :
                    \/ flights'[id].status # flights[id].status
                    \/ flights'[id].arrival_time # flights[id].arrival_time )
           => SessionIn({"SuperAdmin", "FlightManager"})
        /\ ( /\ result'.op \in {"set_dynamic_pricing", "add_pricing_rule"}
              /\ \/ pricing_rules' # pricing_rules
                 \/ \E id \in DOMAIN flights :
                       flights'[id].pricing.dynamic_multiplier
                          # flights[id].pricing.dynamic_multiplier )
           => SessionIn({"SuperAdmin", "FinanceManager"})
      ]_vars

\* RIA101 was delayed under one session and repriced under a
\* FinanceManager session
C14_Witness ==
    /\ SessionIn({"FinanceManager"})
    /\ result.op = "set_dynamic_pricing" /\ result.ok
    /\ flights["F1"].status.kind = "Delayed"
    /\ flights["F1"].arrival_time = InitialFlights["F1"].arrival_time + 60
    /\ flights["F1"].pricing.dynamic_multiplier = Dec(15, 1)

(* ------------------------ the simulator polled ------------------------- *)

\* the instants at which the wall clock is read while the simulator is
\* polled: just inside and at the end of a cooldown, and 30 minutes and a
\* second, 30 minutes, 20 minutes and nothing before departures
SimClock ==
    {T0, T0 + 59, T0 + 60, T0 + 119, T0 + 120, T0 + 659, T0 + 660,
     T0 + 1860, T0 + 1920}

\* FlightStatus, the delay one of 15 minutes
FlightStatuses == {OnTime, Delayed(15), Boarding, Departed, Arrived, Cancelled}

\* flight RIA301 as load_flights reads it from the flights file
StoredFlight(status, schedule) ==
    [FlightNew("RIA301", LHR, CDG, schedule[1], schedule[2], "A2", 1)
     EXCEPT !.status = status]

\* DataManager::new over a data directory whose flight RIA301 has any status
\* and one of three schedules; Flight::new and load_flights take any
\* departure and arrival time, an arrival before the departure included
InitSim ==
    /\ now = T0
    /\ \E status \in FlightStatuses,
          schedule \in { <<T0 + 2460, T0 + 2520>>, <<T0 + 60, T0 + 120>>,
                         <<T0 + 7200, T0 + 60>> } :
          flights = [InitialFlights EXCEPT !["F3"] = StoredFlight(status, schedule)]
    /\ aircraft = [id \in AircraftIds |-> [status |-> "Active"]]
    /\ bookings = <<>>
    /\ current_admin = None
    /\ audit_log = <<>>
    /\ pricing_rules = DefaultRules
    /\ system_metrics =
          [update_aircraft_metrics(update_flight_metrics(SystemMetricsNew, flights),
                                   aircraft)
           EXCEPT !.total_bookings = Len(bookings)]
    /\ last_simulation_update = now
    /\ result = Result("new", Ok(0))
    /\ files = FilesLoaded

\* the wall clock between two polls
Elapse ==
    /\ \E u \in SimClock : u > now /\ now' = u
    /\ UNCHANGED <<flights, aircraft, bookings, current_admin, audit_log,
                   pricing_rules, system_metrics, last_simulation_update, result, files>>

\* the main menu loop polling the simulator as time passes
NextSim ==
    \/ Elapse
    \/ update_simulation

SpecSim == InitSim /\ [][NextSim]_vars

\* the same, with time advancing and the polling going on
SpecPoll ==
    InitSim /\ [][NextSim]_vars /\ WF_vars(Elapse) /\ WF_vars(update_simulation)

(* ---------------------- status rules (C15 - C18) ----------------------- *)

\* update_simulation runs past its cooldown check
EffectiveRun == update_simulation /\ now - last_simulation_update >= 60

\* C15: on an effective run every OnTime or Delayed flight becomes Boarding
\* if 0 < departure - now <= 30 minutes; otherwise Departed if departure
\* <= now < arrival; otherwise Arrived if arrival <= now.  A flight 20
\* minutes from departure goes OnTime -> Boarding.
C15_OnTimeOrDelayedAdvance ==
    [][ EffectiveRun =>
          \A id \in DOMAIN flights :
             flights[id].status.kind \in {"OnTime", "Delayed"} =>
                LET departure == flights[id].departure_time
                    arrival == flights[id].arrival_time
                IN  IF 0 < departure - now /\ departure - now <= 30 * 60
                    THEN flights'[id].status = Boarding
                    ELSE IF departure <= now /\ arrival > now
                    THEN flights'[id].status = Departed
                    ELSE arrival <= now => flights'[id].status = Arrived
      ]_vars

\* RIA101, OnTime since it was created, is Boarding after the run made 20
\* minutes before its departure
C15_Witness ==
    /\ flights["F1"].status = Boarding
    /\ flights["F1"].departure_time - now = 20 * 60
    /\ last_simulation_update = now
    /\ result.op = "update_simulation"

\* C16 as stated: an effective run leaves the status of every OnTime or
\* Delayed flight whose departure is more than 30 minutes after now as it
\* was, whatever the flight's arrival time.
C16_FarFromDepartureUnchanged ==
    [][ EffectiveRun =>
          \A id \in DOMAIN flights :
             ( /\ flights[id].status.kind \in {"OnTime", "Delayed"}
               /\ flights[id].departure_time - now > 30 * 60 )
             => flights'[id].status = flights[id].status
      ]_vars

\* C16 as amended: an effective run leaves the status of every OnTime or
\* Delayed flight whose departure is more than 30 minutes after now and
\* whose arrival is after now as it was; a flight 40 minutes from departure
\* stays as it is.  With the arrival at or before now, the flight becomes
\* Arrived.
C16_FarFromDepartureNotArrivedUnchanged ==
    [][ EffectiveRun =>
          \A id \in DOMAIN flights :
             ( /\ flights[id].status.kind \in {"OnTime", "Delayed"}
               /\ flights[id].departure_time - now > 30 * 60 )
             => flights'[id].status
                   = IF flights[id].arrival_time > now
                     THEN flights[id].status ELSE Arrived
      ]_vars

\* RIA301 is still Delayed after an effective run made 40 minutes before
\* its departure
C16_Witness ==
    /\ flights["F3"].status = Delayed(15)
    /\ flights["F3"].departure_time - now = 40 * 60
    /\ flights["F3"].arrival_time > now
    /\ last_simulation_update = now
    /\ result.op = "update_simulation"

\* C17: on an effective run a Boarding flight becomes Departed if its
\* departure is at or before now and stays Boarding otherwise; a Departed
\* flight becomes Arrived if its arrival is at or before now and stays
\* Departed otherwise; a Boarding flight is never Arrived after one run.
C17_BoardingThenDeparted ==
    [][ EffectiveRun =>
          \A id \in DOMAIN flights :
             /\ flights[id].status = Boarding
                => /\ flights'[id].status
                         = IF flights[id].departure_time <= now
                           THEN Departed ELSE Boarding
                   /\ flights'[id].status # Arrived
             /\ flights[id].status = Departed
                => flights'[id].status
                      = IF flights[id].arrival_time <= now THEN Arrived ELSE Departed
      ]_vars

\* RIA101 is Departed after an effective run at its arrival time: it was
\* Boarding before that run, and only now departs
C17_Witness ==
    /\ flights["F1"].status = Departed
    /\ flights["F1"].arrival_time <= now
    /\ last_simulation_update = now
    /\ result.op = "update_simulation"

\* C18: no update_simulation step changes the status of a flight that is
\* Cancelled or Arrived.
C18_CancelledAndArrivedStay ==
    [][ update_simulation =>
          \A id \in DOMAIN flights :
             flights[id].status.kind \in {"Cancelled", "Arrived"}
             => flights'[id].status = flights[id].status
      ]_vars

\* RIA301 is still Cancelled after an effective run past its arrival time,
\* in which RIA101 arrived
C18_Witness ==
    /\ flights["F3"].status = Cancelled
    /\ flights["F3"].departure_time <= now
    /\ flights["F3"].arrival_time <= now
    /\ flights["F1"].status = Arrived
    /\ last_simulation_update = now
    /\ result.op = "update_simulation"

(* -------------------------- cooldown (C19, C20) ------------------------ *)

\* C19: an update_simulation call made less than 60 seconds after the last
\* effective run, or after construction when there was none, changes no
\* flight, no aircraft, no metric and not the stored last-run time.
C19_CooldownCallIsNoOp ==
    [][ (update_simulation /\ now - last_simulation_update < 60)
        => /\ flights' = flights
           /\ aircraft' = aircraft
           /\ system_metrics' = system_metrics
           /\ last_simulation_update' = last_simulation_update
      ]_vars

\* the simulator was polled within 59 seconds of construction, and only
\* then: RIA301, whose departure is a second away, has not been advanced
C19_Witness ==
    /\ result.op = "update_simulation"
    /\ now = T0 + 59
    /\ last_simulation_update = T0
    /\ flights["F3"].status = OnTime
    /\ flights["F3"].departure_time = T0 + 60

\* C20: polls inside the cooldown leave the last-run time alone; a call
\* made 60 seconds or more after the last effective run is effective and
\* sets the last-run time to the time of the call, whether or not a status
\* changed; so, time advancing and the polling going on, whenever 60
\* seconds or more have passed since the last effective run another one
\* follows, up to the last instant of the clock.
C20_CooldownDoesNotStarve ==
    /\ [][ update_simulation =>
             last_simulation_update' =
                IF now - last_simulation_update >= 60
                THEN now ELSE last_simulation_update
         ]_vars
    /\ \A t \in SimClock :
          (now = t /\ t - last_simulation_update >= 60)
             ~> (last_simulation_update >= t)
    /\ <>(last_simulation_update = T0 + 1920)

\* an effective run was made 11 minutes after construction, the time of the
\* last-run record; RIA101 and RIA301 are Boarding
C20_Witness ==
    /\ last_simulation_update = T0 + 660
    /\ now = T0 + 660
    /\ flights["F1"].status = Boarding
    /\ flights["F3"].status = Boarding
    /\ flights["F3"].departure_time = T0 + 2460
    /\ result.op = "update_simulation"

(* ------------------------ the fleet on file ---------------------------- *)

\* DataManager::new over a data directory whose aircraft have any status and
\* whose flight RIA301, on aircraft A2, is Cancelled, or Boarding with its
\* departure a minute away, or Delayed with its departure 41 minutes away
InitFleet ==
    /\ now = T0
    /\ \E stored \in {StoredFlight(Cancelled, <<T0 + 60, T0 + 120>>),
                       StoredFlight(Boarding, <<T0 + 60, T0 + 120>>),
                       StoredFlight(Delayed(15), <<T0 + 2460, T0 + 2520>>)} :
          flights = [InitialFlights EXCEPT !["F3"] = stored]
    /\ \E statuses \in [AircraftIds -> {"Active", "Maintenance", "Retired", "InFlight"}] :
          aircraft = [id \in AircraftIds |-> [status |-> statuses[id]]]
    /\ bookings = <<>>
    /\ current_admin = None
    /\ audit_log = <<>>
    /\ pricing_rules = DefaultRules
    /\ system_metrics =
          [update_aircraft_metrics(update_flight_metrics(SystemMetricsNew, flights),
                                   aircraft)
           EXCEPT !.total_bookings = Len(bookings)]
    /\ last_simulation_update = now
    /\ result = Result("new", Ok(0))
    /\ files = FilesLoaded

\* the simulator polled over that fleet, between the admin's delays and
\* prices
SpecFleet ==
    InitFleet /\ [][Elapse \/ update_simulation \/ AdminLogin \/ SetDelay
               \/ SetPricing]_vars

(* ------------------------ aircraft (C21, C22) -------------------------- *)

\* a flight of the collection fs that uses the aircraft is Boarding or Departed
HasActiveFlight(fs, id) ==
    \E f \in DOMAIN fs :
       fs[f].aircraft_id = id /\ fs[f].status.kind \in {"Boarding", "Departed"}

\* C21: after an effective update_simulation run every aircraft that was
\* Active or InFlight is InFlight if a flight that uses it is Boarding or
\* Departed after the run, and Active otherwise; no other operation changes
\* the status of an aircraft.
C21_AircraftFollowFlights ==
    [][ /\ EffectiveRun =>
             \A id \in DOMAIN aircraft :
                aircraft[id].status \in {"Active", "InFlight"}
                => aircraft'[id].status
                      = IF HasActiveFlight(flights', id) THEN "InFlight" ELSE "Active"
        /\ (\E id \in DOMAIN aircraft : aircraft'[id].status # aircraft[id].status)
             => EffectiveRun
      ]_vars

\* aircraft A1 is in flight after the run that made its flight RIA101
\* Boarding, while A2, whose flight RIA301 was Boarding, is Active again
\* now that RIA301 has arrived
C21_Witness ==
    /\ aircraft["A1"].status = "InFlight"
    /\ flights["F1"].status = Boarding
    /\ aircraft["A2"].status = "Active"
    /\ flights["F3"].status = Arrived
    /\ last_simulation_update = now
    /\ result.op = "update_simulation"

\* C22: no update_simulation step changes the status of an aircraft that is
\* in Maintenance or Retired, whatever its flights, and none makes an
\* aircraft Maintenance or Retired.
C22_MaintenanceAndRetiredStay ==
    [][ update_simulation =>
          \A id \in DOMAIN aircraft :
             /\ aircraft[id].status \in {"Maintenance", "Retired"}
                => aircraft'[id].status = aircraft[id].status
             /\ aircraft'[id].status \in {"Maintenance", "Retired"}
                => aircraft'[id].status = aircraft[id].status
      ]_vars

\* aircraft A1 is still in Maintenance after the run that made its flight
\* RIA101 Boarding, and A2 is still Retired
C22_Witness ==
    /\ aircraft["A1"].status = "Maintenance"
    /\ flights["F1"].status = Boarding
    /\ aircraft["A2"].status = "Retired"
    /\ last_simulation_update = now
    /\ result.op = "update_simulation"

(* ------------------------ metrics after a run (C30) -------------------- *)

\* C30: after an effective update_simulation run that changed the status of
\* a flight or of an aircraft, the flight and aircraft counters of the
\* metrics are the counts over the flights and aircraft as the run left
\* them.
C30_MetricsAfterChangingRun ==
    [][ ( /\ EffectiveRun
          /\ \/ \E f \in DOMAIN flights : flights'[f].status # flights[f].status
             \/ \E id \in DOMAIN aircraft :
                   aircraft'[id].status # aircraft[id].status ) =>
          /\ system_metrics'.total_flights = Cardinality(DOMAIN flights')
          /\ system_metrics'.active_flights =
                Cardinality({f \in DOMAIN flights' :
                               flights'[f].status.kind \in {"OnTime", "Delayed"}})
          /\ system_metrics'.delayed_flights =
                Cardinality({f \in DOMAIN flights' : flights'[f].status.kind = "Delayed"})
          /\ system_metrics'.cancelled_flights =
                Cardinality({f \in DOMAIN flights' : flights'[f].status.kind = "Cancelled"})
          /\ system_metrics'.total_aircraft = Cardinality(DOMAIN aircraft')
          /\ system_metrics'.active_aircraft =
                Cardinality({id \in DOMAIN aircraft' :
                               aircraft'[id].status \in {"Active", "InFlight"}})
          /\ system_metrics'.aircraft_in_maintenance =
                Cardinality({id \in DOMAIN aircraft' : aircraft'[id].status = "Maintenance"})
      ]_vars

\* the first effective run has made RIA101 Boarding and its aircraft
\* InFlight while RIA301 is still Delayed and RIA201 OnTime, and the metrics
\* count two active flights and one delayed flight
C30_Witness ==
    /\ now = T0 + 60
    /\ last_simulation_update = now
    /\ result.op = "update_simulation"
    /\ flights["F1"].status = Boarding
    /\ flights["F3"].status.kind = "Delayed"
    /\ aircraft["A1"].status = "InFlight"
    /\ system_metrics.active_flights = 2
    /\ system_metrics.delayed_flights = 1

(* ------------------------ f64 multipliers ------------------------------ *)

\* An f64 is kept as its 53-bit significand, five limbs of 13 bits with
\* the least significant first, and its binary exponent: the value is
\* m * 2^e with 2^52 <= m < 2^53, so the fifth limb is 1.
LimbBase == 8192

F64(l1, l2, l3, l4, e) == [m |-> <<l1, l2, l3, l4, 1>>, e |-> e]

\* the literal 1.0 the fold starts from
F64One == F64(0, 0, 0, 0, -52)

\* the f64 nearest to the decimal literals of the multipliers
F64Literal(d) ==
    CASE d = Dec(1, 0) -> F64One
      [] d = Dec(11, 1) -> F64(6554, 3276, 1638, 819, -52)
      [] d = Dec(13, 1) -> F64(3277, 1638, 4915, 2457, -52)
      [] d = Dec(9, 1) -> F64(3277, 1638, 4915, 6553, -53)
      [] d = Dec(12, 1) -> F64(4915, 6553, 3276, 1638, -52)
      [] d = Dec(15, 1) -> F64(0, 0, 0, 4096, -52)
      [] d = Dec(8, 1) -> F64(6554, 3276, 1638, 4915, -53)
      [] d = Dec(2, 0) -> F64(0, 0, 0, 0, -51)

\* column k of the schoolbook product of two significands
Column(a, b, k) ==
    LET Term(i) == IF k + 1 - i \in 1 .. 5 THEN a[i] * b[k + 1 - i] ELSE 0
    IN  Term(1) + Term(2) + Term(3) + Term(4) + Term(5)

RECURSIVE Carry(_, _, _, _)
\* the limbs k .. 9 of the product, the carry from the columns below k given
Carry(a, b, k, carry) ==
    IF k > 9 THEN <<>>
    ELSE LET sum == Column(a, b, k) + carry
         IN  <<sum % LimbBase>> \o Carry(a, b, k + 1, sum \div LimbBase)

\* the exact 106-bit product of two significands, nine limbs
Product(a, b) == Carry(a, b, 1, 0)

RECURSIVE Increment(_, _)
\* the significand plus one, from limb k on
Increment(m, k) ==
    IF k > Len(m) THEN m
    ELSE IF m[k] + 1 < LimbBase \/ k = Len(m)
         THEN [m EXCEPT ![k] = m[k] + 1]
         ELSE Increment([m EXCEPT ![k] = 0], k + 1)

\* a * b in f64: the exact product rounded to 53 bits, ties to even
F64Mul(a, b) ==
    LET p == Product(a.m, b.m)
        low_zero == p[1] = 0 /\ p[2] = 0 /\ p[3] = 0
        \* the product has 105 bits (p[9] = 1) or 106 bits (p[9] > 1)
        wide == p[9] > 1
        kept == IF wide
                THEN [i \in 1 .. 5 |->
                        (p[i + 4] \div 2)
                           + (IF i < 5 THEN (p[i + 5] % 2) * (LimbBase \div 2) ELSE 0)]
                ELSE [i \in 1 .. 5 |-> p[i + 4]]
        odd == kept[1] % 2 = 1
        half == LimbBase \div 2
        round_up ==
            IF wide
            THEN /\ p[5] % 2 = 1
                 /\ (~ (low_zero /\ p[4] = 0) \/ odd)
            ELSE \/ p[4] > half
                 \/ p[4] = half /\ (~ low_zero \/ odd)
        rounded == IF round_up THEN Increment(kept, 1) ELSE kept
        e == a.e + b.e + (IF wide THEN 53 ELSE 52)
    IN  IF rounded[5] = 2
        THEN [m |-> <<0, 0, 0, 0, 1>>, e |-> e + 1]
        ELSE [m |-> rounded, e |-> e]

RECURSIVE FoldMultiplierF64(_, _, _, _, _)
\* faulty variant: the fold also takes the rules that are not active
FoldMultiplierF64_inactive_too(rules, i, acc, route, hour) ==
    IF i > Len(rules) THEN acc
    ELSE LET rule == rules[i]
             keep == /\ applies_to_route(rule, route[1], route[2])
                     /\ applies_to_time(rule, hour)
         IN  FoldMultiplierF64(rules, i + 1,
                               IF keep THEN F64Mul(acc, F64Literal(rule.multiplier))
                                       ELSE acc,
                               route, hour)

\* the fold of get_applicable_multiplier over rules[i..] in f64 arithmetic
FoldMultiplierF64(rules, i, acc, route, hour) ==
    IF i > Len(rules) THEN acc
    ELSE LET rule == rules[i]
             keep == /\ rule.is_active
                     /\ applies_to_route(rule, route[1], route[2])
                     /\ applies_to_time(rule, hour)
         IN  FoldMultiplierF64(rules, i + 1,
                               IF keep THEN F64Mul(acc, F64Literal(rule.multiplier))
                                       ELSE acc,
                               route, hour)

\* AdminPanel::get_applicable_multiplier, the f64 it returns
get_applicable_multiplier_f64(rules, origin, destination, hour) ==
    FoldMultiplierF64(rules, 1, F64One, <<origin, destination>>, hour)

(* ------------------------ the rule book -------------------------------- *)

\* the rules registered after the three of DataManager::new: for every
\* route and hour; for a prefix, a substring, an exact route, the whole
\* route behind a lone star, a star in the middle; for a period that ends
\* before it starts
RuleInputs ==
    { [rule_name |-> "Fuel Surcharge", route_pattern |-> None,
       time_period |-> None, multiplier |-> Dec(11, 1)],
      [rule_name |-> "From Los Angeles",
       route_pattern |-> Some(<<"L", "A", "X", "-", "*">>),
       time_period |-> None, multiplier |-> Dec(12, 1)],
      [rule_name |-> "Los Angeles", route_pattern |-> Some(<<"*", "L", "A", "X", "*">>),
       time_period |-> None, multiplier |-> Dec(8, 1)],
      [rule_name |-> "Shuttle",
       route_pattern |-> Some(<<"L", "A", "X", "-", "J", "F", "K">>),
       time_period |-> None, multiplier |-> Dec(2, 0)],
      [rule_name |-> "Coast to Coast",
       route_pattern |-> Some(<<"L", "A", "X", "*", "J", "F", "K">>),
       time_period |-> None, multiplier |-> Dec(2, 0)],
      [rule_name |-> "Everywhere", route_pattern |-> Some(<<"*">>),
       time_period |-> None, multiplier |-> Dec(15, 1)],
      [rule_name |-> "Night", route_pattern |-> None,
       time_period |-> Some(<<22, 4>>), multiplier |-> Dec(15, 1)] }

\* the routes and the hours of day a fare is asked for
RouteInputs == {<<LAX, JFK>>, <<JFK, LAX>>, <<JFK, LHR>>, <<JFK, CDG>>}

Hours == 0 .. 23

\* the hours a fare is computed for: before, at the ends of and after the
\* periods of the rules
FareHours == {0, 5, 6, 9, 10, 22}

\* one of the rules is registered by the session's admin
RegisterRule ==
    \E r \in RuleInputs :
       add_pricing_rule(PricingRuleNew("R" \o ToString(Len(pricing_rules) + 1),
                                       r.rule_name, r.route_pattern, r.time_period,
                                       r.multiplier, "system"))

\* a caller of the library switches a rule off: PricingRule.is_active and
\* AdminPanel.pricing_rules are public fields
Deactivate ==
    /\ \E i \in 1 .. Len(pricing_rules) :
          /\ pricing_rules[i].is_active
          /\ pricing_rules' = [pricing_rules EXCEPT ![i].is_active = FALSE]
    /\ UNCHANGED <<now, flights, aircraft, bookings, current_admin, audit_log,
                   system_metrics, last_simulation_update, result, files>>

\* DataManager::new, after which a caller of the library has stored a
\* SuperAdmin session (AdminPanel.current_admin is a public field), so that
\* the audit log has room for the rules
InitRules ==
    /\ now = T0
    /\ flights = InitialFlights
    /\ aircraft = [id \in AircraftIds |-> [status |-> "Active"]]
    /\ bookings = <<>>
    /\ current_admin = Some([id |-> NewAdminId(<<>>),
                             username |-> "admin",
                             level |-> "SuperAdmin"])
    /\ audit_log = <<>>
    /\ pricing_rules = DefaultRules
    /\ system_metrics =
          [update_aircraft_metrics(update_flight_metrics(SystemMetricsNew, flights),
                                   aircraft)
           EXCEPT !.total_bookings = Len(bookings)]
    /\ last_simulation_update = now
    /\ result = Result("new", Ok(0))
    /\ files = FilesLoaded

SpecRules ==
    InitRules /\ [][RegisterRule \/ Deactivate]_vars

(* ------------------------ the multiplier (C23) ------------------------- *)

RECURSIVE OrdersOf(_)
\* the orders in which the members of S can be listed
OrdersOf(S) ==
    IF S = {} THEN {<<>>}
    ELSE UNION {{<<i>> \o order : order \in OrdersOf(S \ {i})} : i \in S}

RECURSIVE ProductAlong(_, _, _)
\* ((1.0 * m[order[1]]) * m[order[2]]) * ... up to order[k], in f64
ProductAlong(rules, order, k) ==
    IF k = 0 THEN F64One
    ELSE F64Mul(ProductAlong(rules, order, k - 1),
                F64Literal(rules[order[k]].multiplier))

RECURSIVE Ascending(_)
\* the orders in which the rules of S can have been registered: the rules
\* of DataManager::new first and in their order, the later ones in any order
RegistrationOrders(S) ==
    {order \in OrdersOf(S) :
        \A j, k \in 1 .. Len(order) :
           j < k /\ order[k] <= Len(DefaultRules) => order[j] < order[k]}

\* the members of the set S of indices, in increasing order
Ascending(S) ==
    IF S = {} THEN <<>>
    ELSE LET first == CHOOSE i \in S : \A j \in S : i <= j
         IN  <<first>> \o Ascending(S \ {first})

\* C23 as stated: for every route and hour the multiplier is the product
\* of the multipliers of exactly the registered rules that are active and
\* match the route and the hour, in whatever order these were registered,
\* and it is exactly 1 when no rule matches.
C23_ProductInAnyOrder ==
    \A route \in RouteInputs, hour \in FareHours :
       LET matching == MatchingRules(pricing_rules, route[1], route[2], hour)
           multiplier == get_applicable_multiplier_f64(pricing_rules,
                                                       route[1], route[2], hour)
       IN  /\ \A order \in RegistrationOrders(matching) :
                multiplier = ProductAlong(pricing_rules, order, Len(order))
           /\ matching = {} => multiplier = F64One

\* C23: for every route and hour the multiplier is the f64 product, taken
\* from 1.0 in the order of registration, of the multipliers of exactly
\* the registered rules that are active and match the route and the hour;
\* it is exactly 1 when no rule matches.
C23_ProductInRegistrationOrder ==
    \A route \in RouteInputs, hour \in FareHours :
       LET matching == MatchingRules(pricing_rules, route[1], route[2], hour)
           order == Ascending(matching)
           multiplier == get_applicable_multiplier_f64(pricing_rules,
                                                       route[1], route[2], hour)
       IN  /\ multiplier = ProductAlong(pricing_rules, order, Len(order))
           /\ matching = {} => multiplier = F64One

\* the surcharge x1.1 and the Los Angeles rule x1.2 were registered after
\* the default rules and the weekend discount was switched off: from LAX
\* to JFK at 7 the multiplier is (1.3 * 1.1) * 1.2, and from JFK to CDG at
\* 12, where only the surcharge matches, 1.1
C23_Witness ==
    /\ Len(pricing_rules) = 5
    /\ pricing_rules[4].rule_name = "Fuel Surcharge"
    /\ pricing_rules[5].rule_name = "From Los Angeles"
    /\ ~ pricing_rules[2].is_active
    /\ \A i \in {1, 3, 4, 5} : pricing_rules[i].is_active
    /\ get_applicable_multiplier_f64(pricing_rules, LAX, JFK, 7)
          = F64(6620, 5111, 3866, 5865, -52)
    /\ get_applicable_multiplier_f64(pricing_rules, JFK, CDG, 12)
          = F64Literal(Dec(11, 1))

(* ------------------------ route and hour (C24, C25) -------------------- *)

\* the string s is u followed by v for some u: s ends with v
HasSuffix(s, v) == \E u \in {SubSeq(s, 1, k) : k \in 0 .. Len(s)} : s = u \o v

\* s starts with v
HasPrefix(s, v) == \E w \in {SubSeq(s, k, Len(s)) : k \in 1 .. Len(s) + 1} : s = v \o w

\* v occurs in s
HasPart(s, v) == \E k \in 0 .. Len(s) : HasPrefix(SubSeq(s, k + 1, Len(s)), v)

\* the positions of the stars of a pattern
Stars(pattern) == {i \in 1 .. Len(pattern) : pattern[i] = "*"}

\* the pattern between its leading and its trailing stars
Middle(pattern) ==
    LET inner == {i \in 1 .. Len(pattern) : pattern[i] # "*"}
    IN  IF inner = {} THEN <<>>
        ELSE SubSeq(pattern,
                    CHOOSE i \in inner : \A j \in inner : i <= j,
                    CHOOSE i \in inner : \A j \in inner : j <= i)

\* C24: a registered rule without a pattern applies to every route; with a
\* pattern that has a star at both ends it applies iff origin-destination
\* contains the part between them; with a leading star only, iff the route
\* ends with the rest; with a trailing star only, iff the route starts
\* with the rest; without a star, iff the route is the pattern; with stars
\* in the middle only, never. *-LHR applies to JFK-LHR and not to JFK-CDG,
\* LAX-* to LAX-JFK and not to JFK-LAX.
C24_RoutePatterns ==
    \A i \in 1 .. Len(pricing_rules), r \in RouteInputs :
       LET rule == pricing_rules[i]
           pattern == rule.route_pattern.val
           route == r[1] \o <<"-">> \o r[2]
           applies == applies_to_route(rule, r[1], r[2])
           leading == 1 \in Stars(pattern)
           trailing == Len(pattern) \in Stars(pattern)
       IN  /\ ~ rule.route_pattern.some => applies
           /\ rule.route_pattern.some =>
                 /\ leading /\ trailing => (applies <=> HasPart(route, Middle(pattern)))
                 /\ leading /\ ~ trailing =>
                       (applies <=> HasSuffix(route, SubSeq(pattern, 2, Len(pattern))))
                 /\ ~ leading /\ trailing =>
                       (applies <=> HasPrefix(route, SubSeq(pattern, 1, Len(pattern) - 1)))
                 /\ Stars(pattern) = {} => (applies <=> route = pattern)
                 /\ Stars(pattern) # {} /\ ~ leading /\ ~ trailing => ~ applies
                 /\ pattern = <<"*", "-", "L", "H", "R">> =>
                       (applies <=> r = <<JFK, LHR>>)
                 /\ pattern = <<"L", "A", "X", "-", "*">> =>
                       (applies <=> r = <<LAX, JFK>>)

\* the rule book holds, after the default rules with *-LHR, a rule with a
\* star in the middle and a rule for LAX-*
C24_Witness ==
    /\ Len(pricing_rules) = 5
    /\ pricing_rules[3].route_pattern = Some(<<"*", "-", "L", "H", "R">>)
    /\ pricing_rules[4].route_pattern = Some(<<"L", "A", "X", "*", "J", "F", "K">>)
    /\ pricing_rules[5].route_pattern = Some(<<"L", "A", "X", "-", "*">>)
    /\ applies_to_route(pricing_rules[5], LAX, JFK)
    /\ ~ applies_to_route(pricing_rules[4], LAX, JFK)
    /\ result.op = "add_pricing_rule" /\ result.ok

\* C25: a registered rule without a time period applies at every hour; one
\* with a period (start, end) applies exactly at the hours with
\* start <= hour <= end, so that a period with start > end applies at no
\* hour of the day.
C25_TimePeriods ==
    \A i \in 1 .. Len(pricing_rules) :
       LET rule == pricing_rules[i]
           start == rule.time_period.val[1]
           end == rule.time_period.val[2]
           applying == {hour \in Hours : applies_to_time(rule, hour)}
       IN  /\ ~ rule.time_period.some => applying = Hours
           /\ rule.time_period.some => applying = Hours \cap (start .. end)
           /\ rule.time_period.some /\ start > end => applying = {}

\* the rule book holds the default rule for 6 to 9, which applies at 6 and
\* at 9 and not at 10, and the rule for 22 to 4
C25_Witness ==
    /\ Len(pricing_rules) = 4
    /\ pricing_rules[1].time_period = Some(<<6, 9>>)
    /\ applies_to_time(pricing_rules[1], 6)
    /\ applies_to_time(pricing_rules[1], 9)
    /\ ~ applies_to_time(pricing_rules[1], 10)
    /\ pricing_rules[4].time_period = Some(<<22, 4>>)
    /\ ~ applies_to_time(pricing_rules[4], 23)
    /\ result.op = "add_pricing_rule" /\ result.ok

(* ------------------------ the admin desk ------------------------------- *)

\* the delays the admin types: negative, zero, positive
DelayMinutes == {-5, 0, 15}

\* the multipliers the admin types
MultiplierInputs == {Dec(15, 1), Dec(8, 1), Dec(12, 1)}

\* DataManager::authenticate_admin called with any of the credentials,
\* whether or not a session exists
Authenticate == \E c \in Credentials : authenticate_admin(c[1], c[2])

SetDelayBy ==
    \E flight_number \in FlightNumbers, delay_minutes \in DelayMinutes :
       set_flight_delay(flight_number, delay_minutes)

SetPricingTo ==
    \E flight_number \in FlightNumbers, multiplier \in MultiplierInputs :
       set_dynamic_pricing(flight_number, multiplier)

\* DataManager::new, after which a caller of the library has stored a
\* SuperAdmin session of its own (AdminPanel.current_admin is a public
\* field), so that the audit log has room for two administered changes
InitDesk ==
    /\ now = T0
    /\ flights = InitialFlights
    /\ aircraft = [id \in AircraftIds |-> [status |-> "Active"]]
    /\ bookings = <<>>
    /\ current_admin = Some([id |-> 0, username |-> "user", level |-> "SuperAdmin"])
    /\ audit_log = <<>>
    /\ pricing_rules = DefaultRules
    /\ system_metrics =
          [update_aircraft_metrics(update_flight_metrics(SystemMetricsNew, flights),
                                   aircraft)
           EXCEPT !.total_bookings = Len(bookings)]
    /\ last_simulation_update = now
    /\ result = Result("new", Ok(0))
    /\ files = FilesLoaded

\* the operations that write the audit log
SpecDesk ==
    InitDesk /\ [][Authenticate \/ Logout \/ SetDelayBy \/ SetPricingTo
               \/ AddPricingRule]_vars

(* ------------------------ delays (C26) --------------------------------- *)

\* C26: a successful set_flight_delay(flight, minutes) with minutes > 0
\* makes the flight Delayed(minutes) and moves its arrival time on by
\* exactly that many minutes; with minutes <= 0 it makes the flight OnTime
\* and leaves the arrival time as it was; departure time, seats and
\* pricing stay as they were.
C26_DelayShiftsArrival ==
    [][ \A flight_number \in FlightNumbers, minutes \in DelayMinutes :
          set_flight_delay(flight_number, minutes) /\ result'.ok =>
             \A id \in DOMAIN flights :
                flights[id].flight_number = flight_number =>
                   /\ minutes > 0 =>
                         /\ flights'[id].status = [kind |-> "Delayed", minutes |-> minutes]
                         /\ flights'[id].arrival_time
                               = flights[id].arrival_time + 60 * minutes
                   /\ minutes <= 0 =>
                         /\ flights'[id].status.kind = "OnTime"
                         /\ flights'[id].arrival_time = flights[id].arrival_time
                   /\ flights'[id].departure_time = flights[id].departure_time
                   /\ flights'[id].seat_availability = flights[id].seat_availability
                   /\ flights'[id].pricing = flights[id].pricing
      ]_vars

\* RIA101 was delayed by 15 minutes and the delay then set to zero: it is
\* OnTime and still arrives 15 minutes later than scheduled
C26_Witness ==
    /\ Len(audit_log) = 2
    /\ audit_log[1].action_type = "SET_DELAY"
    /\ audit_log[1].new_value = Some("Delayed 15 min")
    /\ audit_log[2].action_type = "SET_DELAY"
    /\ flights["F1"].status = OnTime
    /\ flights["F1"].arrival_time = InitialFlights["F1"].arrival_time + 900
    /\ flights["F1"].departure_time = InitialFlights["F1"].departure_time
    /\ result.op = "set_flight_delay" /\ result.ok

(* ------------------------ the audit log (C27, C28) --------------------- *)

\* the step appends one entry to the audit log
AppendsOne ==
    /\ Len(audit_log') = Len(audit_log) + 1
    /\ SubSeq(audit_log', 1, Len(audit_log)) = audit_log

\* C27: every successful set_flight_delay, set_dynamic_pricing and
\* add_pricing_rule appends exactly one audit entry; its actor is the id of
\* the session's admin, its entity the id of the flight or of the rule,
\* and its old and new values are the flight's status display, or dynamic
\* multiplier, before and after the change.
C27_AdministeredChangesAreLogged ==
    [][ LET entry == audit_log'[Len(audit_log')]
        IN  /\ \A flight_number \in FlightNumbers, minutes \in DelayMinutes :
                  set_flight_delay(flight_number, minutes) /\ result'.ok =>
                     /\ AppendsOne
                     /\ entry.admin_id = current_admin.val.id
                     /\ \E id \in DOMAIN flights :
                           /\ flights[id].flight_number = flight_number
                           /\ entry.affected_entity_id = [some |-> TRUE, val |-> id]
                           /\ entry.old_value
                                 = [some |-> TRUE, val |-> get_status_display(flights[id])]
                           /\ entry.new_value
                                 = [some |-> TRUE, val |-> get_status_display(flights'[id])]
            /\ \A flight_number \in FlightNumbers, multiplier \in MultiplierInputs :
                  set_dynamic_pricing(flight_number, multiplier) /\ result'.ok =>
                     /\ AppendsOne
                     /\ entry.admin_id = current_admin.val.id
                     /\ \E id \in DOMAIN flights :
                           /\ flights[id].flight_number = flight_number
                           /\ entry.affected_entity_id = [some |-> TRUE, val |-> id]
                           /\ entry.old_value
                                 = [some |-> TRUE,
                                    val |-> DecString(flights[id].pricing.dynamic_multiplier)]
                           /\ entry.new_value
                                 = [some |-> TRUE,
                                    val |-> DecString(flights'[id].pricing.dynamic_multiplier)]
            /\ AddPricingRule /\ result'.ok =>
                  /\ AppendsOne
                  /\ entry.admin_id = current_admin.val.id
                  /\ Len(pricing_rules') = Len(pricing_rules) + 1
                  /\ entry.affected_entity_id
                        = [some |-> TRUE, val |-> pricing_rules'[Len(pricing_rules')].id]
      ]_vars

\* the flight manager logged in over the stored session and delayed
\* RIA101: the entry names the manager, the flight and both statuses
C27_Witness ==
    /\ Len(audit_log) = 2
    /\ audit_log[1].action_type = "LOGIN"
    /\ current_admin = Some([id |-> audit_log[1].admin_id,
                             username |-> "flight_mgr",
                             level |-> "FlightManager"])
    /\ audit_log[2].action_type = "SET_DELAY"
    /\ audit_log[2].admin_id = audit_log[1].admin_id
    /\ audit_log[2].admin_id # 0
    /\ audit_log[2].affected_entity_id = Some("F1")
    /\ audit_log[2].old_value = Some("On Time")
    /\ audit_log[2].new_value = Some("Delayed 15 min")
    /\ result.op = "set_flight_delay" /\ result.ok

\* Iterator::take(limit)
Take(seq, limit) == SubSeq(seq, 1, IF limit < Len(seq) THEN limit ELSE Len(seq))

\* faulty variant: the first limit entries, oldest first
get_recent_actions_oldest_first(log, limit) == Take(log, limit)

\* AdminPanel::get_recent_actions: iter().rev().take(limit)
get_recent_actions(log, limit) ==
    Take([k \in 1 .. Len(log) |-> log[Len(log) + 1 - k]], limit)

\* C28: every step leaves the audit log it found as a prefix of the log
\* it leaves, and get_recent_actions(limit) is the min(limit, length)
\* entries appended last, the newest first.
C28_AppendOnlyNewestFirst ==
    /\ [][ /\ Len(audit_log') >= Len(audit_log)
           /\ \A i \in 1 .. Len(audit_log) : audit_log'[i] = audit_log[i] ]_vars
    /\ [](\A limit \in 0 .. MaxLog + 1 :
            LET recent == get_recent_actions(audit_log, limit)
                length == Len(audit_log)
            IN  /\ Len(recent) = (IF limit <= length THEN limit ELSE length)
                /\ \A k \in 1 .. Len(recent) : recent[k] = audit_log[length + 1 - k])

\* after a login and a change of price the most recent action is the
\* change of price, and the two most recent are that and the login
C28_Witness ==
    /\ Len(audit_log) = 2
    /\ audit_log[1].action_type = "LOGIN"
    /\ audit_log[2].action_type = "SET_PRICING"
    /\ get_recent_actions(audit_log, 1) = <<audit_log[2]>>
    /\ get_recent_actions(audit_log, 3) = <<audit_log[2], audit_log[1]>>
    /\ result.op = "set_dynamic_pricing" /\ result.ok

(* ------------------------ the session (C29) ---------------------------- *)

\* logins, failed logins and logouts (logout_admin called with or without
\* a session), and the privileged calls tried in between
SpecSession ==
    Init /\ [][Authenticate \/ logout_admin \/ SetDelayBy \/ SetPricingTo
               \/ AddPricingRule]_vars

\* the username and password are those of one of the three accounts
ValidCredentials(c) ==
    \/ c = <<"admin", "admin123">>
    \/ c = <<"flight_mgr", "flight123">>
    \/ c = <<"aircraft_mgr", "aircraft123">>

\* C29: a session comes into being only by a successful authenticate and
\* ends only by logout_admin, which always ends it; there is none at the
\* start; while there is none every privileged call fails and changes
\* nothing; an authenticate with wrong credentials fails and leaves the
\* session, present or not, and the audit log as they were.
C29_SessionLifecycle ==
    /\ ~ current_admin.some
    /\ [][ /\ current_admin' # current_admin /\ current_admin'.some
              => /\ \E c \in Credentials :
                       ValidCredentials(c) /\ authenticate_admin(c[1], c[2])
                 /\ result'.ok
           /\ current_admin.some /\ ~ current_admin'.some => logout_admin
           /\ logout_admin => ~ current_admin'.some
           /\ ~ current_admin.some /\ (SetDelayBy \/ SetPricingTo \/ AddPricingRule)
              => /\ ~ result'.ok
                 /\ UNCHANGED <<flights, pricing_rules, audit_log, current_admin>>
           /\ \A c \in Credentials :
                 ~ ValidCredentials(c) /\ authenticate_admin(c[1], c[2])
                 => /\ ~ result'.ok
                    /\ UNCHANGED <<current_admin, audit_log>>
         ]_vars

\* the admin logged in and out, and the delay tried after that was refused
\* for want of a session
C29_Witness ==
    /\ Len(audit_log) = 2
    /\ audit_log[1].action_type = "LOGIN"
    /\ audit_log[2].action_type = "LOGOUT"
    /\ ~ current_admin.some
    /\ result.op = "set_flight_delay"
    /\ ~ result.ok
    /\ result.err = "Admin authentication required"
    /\ flights = InitialFlights

(* ------------------------ metrics queries (C31) ------------------------ *)

\* DataManager::get_system_metrics: the metrics kept in the admin panel
get_system_metrics == system_metrics

\* C31: in every state the active, delayed and cancelled flight counters
\* that get_system_metrics returns are the numbers of flights that are
\* OnTime or Delayed, Delayed, and Cancelled in the flight collection.
C31_MetricsAreCurrent ==
    /\ get_system_metrics.active_flights =
          Cardinality({f \in DOMAIN flights :
                         flights[f].status.kind \in {"OnTime", "Delayed"}})
    /\ get_system_metrics.delayed_flights =
          Cardinality({f \in DOMAIN flights : flights[f].status.kind = "Delayed"})
    /\ get_system_metrics.cancelled_flights =
          Cardinality({f \in DOMAIN flights : flights[f].status.kind = "Cancelled"})

(* ------------------------ what a run leaves alone (C32) ---------------- *)

\* C32: an update_simulation step leaves every flight's seat counts,
\* departure and arrival times and pricing, the bookings, the pricing
\* rules, the audit log, the session and the revenue and total_bookings
\* metrics as they were; and no step takes a flight out of the collection.
C32_RunChangesStatusesOnly ==
    [][ /\ update_simulation =>
             /\ \A f \in DOMAIN flights :
                   /\ flights'[f].seat_availability = flights[f].seat_availability
                   /\ flights'[f].departure_time = flights[f].departure_time
                   /\ flights'[f].arrival_time = flights[f].arrival_time
                   /\ flights'[f].pricing = flights[f].pricing
             /\ bookings' = bookings
             /\ pricing_rules' = pricing_rules
             /\ audit_log' = audit_log
             /\ current_admin' = current_admin
             /\ system_metrics'.revenue_today = system_metrics.revenue_today
             /\ system_metrics'.revenue_month = system_metrics.revenue_month
             /\ system_metrics'.total_bookings = system_metrics.total_bookings
        /\ DOMAIN flights \subseteq DOMAIN flights'
      ]_vars

\* a run has made RIA101 Boarding with a seat of it booked and its price
\* raised by the admin: seat, booking, price and revenue are as they were
C32_Witness ==
    /\ result.op = "update_simulation"
    /\ last_simulation_update = now
    /\ flights["F1"].status = Boarding
    /\ flights["F1"].pricing.dynamic_multiplier = Dec(15, 1)
    /\ Len(bookings) = 1
    /\ SeatSum(flights["F1"]) = flights["F1"].total_capacity - 1
    /\ system_metrics.total_bookings = 1
    /\ system_metrics.revenue_today = bookings[1].payment.total_amount
    /\ current_admin.some

(* ------------------------ booking metrics (C33) ------------------------ *)

\* C33: once a booking exists, total_bookings is the length of the booking
\* list, cancelled bookings included; a successful create_booking adds the
\* new booking's amount to revenue_today and to revenue_month, and no other
\* step changes either.
C33_BookingMetrics ==
    /\ [](Len(bookings) > 0 => system_metrics.total_bookings = Len(bookings))
    /\ [][ /\ \A in \in CreateInputs :
                 create_booking(in[1], in[2], in[3]) /\ result'.ok =>
                    LET amount == bookings'[Len(bookings')].payment.total_amount
                    IN  /\ Len(bookings') = Len(bookings) + 1
                        /\ system_metrics'.revenue_today
                              = DAdd(system_metrics.revenue_today, amount)
                        /\ system_metrics'.revenue_month
                              = DAdd(system_metrics.revenue_month, amount)
           /\ (\/ system_metrics'.revenue_today # system_metrics.revenue_today
               \/ system_metrics'.revenue_month # system_metrics.revenue_month)
              => \E in \in CreateInputs :
                    create_booking(in[1], in[2], in[3]) /\ result'.ok
         ]_vars

\* two bookings were made and the first cancelled: total_bookings is 2 and
\* both revenues are still the sum of the two amounts
C33_Witness ==
    /\ Len(bookings) = 2
    /\ bookings[1].status = "Cancelled"
    /\ system_metrics.total_bookings = 2
    /\ system_metrics.revenue_today
          = DAdd(bookings[1].payment.total_amount, bookings[2].payment.total_amount)
    /\ system_metrics.revenue_month = system_metrics.revenue_today
    /\ result.op = "cancel_booking" /\ result.ok

(* ------------------------ unknown flight numbers (C34) ----------------- *)

\* no flight of the collection has the number
Unknown(flight_number) ==
    \A id \in DOMAIN flights : flights[id].flight_number # flight_number

\* C34: set_flight_delay by a session that may manage flights, and
\* set_dynamic_pricing by one that may manage pricing, with a flight number
\* that no flight has, return an error, change no flight and append
\* nothing to the audit log.
C34_UnknownFlightNumber ==
    [][ /\ \A flight_number \in FlightNumbers, minutes \in DelayInputs :
              /\ Unknown(flight_number)
              /\ SessionIn({"SuperAdmin", "FlightManager"})
              /\ set_flight_delay(flight_number, minutes)
              => /\ ~ result'.ok
                 /\ result'.err = "Flight not found"
                 /\ flights' = flights
                 /\ audit_log' = audit_log
        /\ \A flight_number \in FlightNumbers :
              /\ Unknown(flight_number)
              /\ SessionIn({"SuperAdmin", "FinanceManager"})
              /\ set_dynamic_pricing(flight_number, Dec(15, 1))
              => /\ ~ result'.ok
                 /\ result'.err = "Flight not found"
                 /\ flights' = flights
                 /\ audit_log' = audit_log
      ]_vars

\* a finance manager asked for the price of a flight number that does not
\* exist: the call failed, the flights are as at the start, the log empty
C34_Witness ==
    /\ SessionIn({"FinanceManager"})
    /\ result.op = "set_dynamic_pricing"
    /\ result.err = "Flight not found"
    /\ flights = InitialFlights
    /\ audit_log = <<>>

(* ------------------------ Completed (C35) ------------------------------ *)

\* the life cycle of the bookings with every operation tried again and
\* again: none of them is put off for ever
SpecLifecycleFair ==
    /\ SpecLifecycle
    /\ WF_vars(CreateBookingRIA101)
    /\ WF_vars(CancelBooking)
    /\ WF_vars(CheckIn)
    /\ WF_vars(Board)
    /\ WF_vars(update_simulation)

\* some booking of the list has the status
SomeBooking(status) == \E i \in 1 .. Len(bookings) : bookings[i].status = status

\* C35: the operations move a Boarded booking on to Completed, so that a
\* booking made by create_booking and then checked in and boarded does
\* become Completed when no operation is put off for ever.
C35_BoardedBecomesCompleted == SomeBooking("Boarded") ~> SomeBooking("Completed")

(* ------------------------ saving (C36) --------------------------------- *)

\* the collections in the order DataPersistence::save_all_data writes them
Collections == <<"flights", "aircraft", "bookings", "airports">>

\* the collection of the in-memory database that goes to the file; the
\* airports are those of the sample data set, which no operation changes
Snapshot(collection) ==
    CASE collection = "flights" -> flights
      [] collection = "aircraft" -> aircraft
      [] collection = "bookings" -> bookings
      [] collection = "airports" ->
            {LAX, JFK, LHR, CDG, <<"N", "R", "T">>, <<"D", "X", "B">>}

\* a file that fs::write created and could not write to the end
Torn == [some |-> FALSE, torn |-> TRUE]

RECURSIVE SaveFrom(_, _, _)
\* faulty variant: the collections after a failed one are written as well
SaveFrom_keeps_going(fl, k, outcome) ==
    IF k > Len(Collections) THEN [files |-> fl, ok |-> TRUE]
    ELSE LET collection == Collections[k]
         IN  IF outcome[k] = "written"
             THEN SaveFrom([fl EXCEPT ![collection] = Some(Snapshot(collection))],
                           k + 1, outcome)
             ELSE [files |-> SaveFrom(IF outcome[k] = "torn"
                                      THEN [fl EXCEPT ![collection] = Torn] ELSE fl,
                                      k + 1, [i \in 1 .. Len(Collections) |-> "written"]).files,
                   ok |-> FALSE]

\* DataPersistence::save_all_data from its k-th save on, each followed by ?
SaveFrom(fl, k, outcome) ==
    IF k > Len(Collections) THEN [files |-> fl, ok |-> TRUE]
    ELSE LET collection == Collections[k]
         IN  IF outcome[k] = "written"
             THEN SaveFrom([fl EXCEPT ![collection] = Some(Snapshot(collection))],
                           k + 1, outcome)
             ELSE [files |-> IF outcome[k] = "torn"
                             THEN [fl EXCEPT ![collection] = Torn] ELSE fl,
                   ok |-> FALSE]

\* DataManager::save_all_data, whatever the file system does: every save
\* succeeds ("written"), or the first one to fail is the one numbered
\* failed, with an error before its file was opened ("failed") or after it
\* was truncated ("torn")
save_all_data ==
    /\ \E failed \in 1 .. Len(Collections) + 1, how \in {"failed", "torn"} :
          LET outcome == [k \in 1 .. Len(Collections) |->
                             IF k = failed THEN how ELSE "written"]
              saved == SaveFrom(files, 1, outcome)
          IN  /\ files' = saved.files
              /\ result' = Result("save_all_data",
                                  IF saved.ok THEN Ok(0) ELSE Err("I/O error"))
    /\ UNCHANGED <<now, flights, aircraft, bookings, current_admin, audit_log,
                   pricing_rules, system_metrics, last_simulation_update>>

\* flight RIA101 booked, the data saved in between
SpecSave ==
    Init /\ [][CreateBookingRIA101 \/ save_all_data]_vars

\* C36: a save_all_data step leaves the in-memory database, the session,
\* the log, the rules and the metrics as they were; it returns Ok exactly
\* when all four files hold the current collections; when it fails at a
\* collection, the files of the collections before it hold the current
\* collections and the files of those after it are as they were.
C36_SaveLeavesSnapshot ==
    [][ save_all_data =>
          /\ UNCHANGED <<now, flights, aircraft, bookings, current_admin, audit_log,
                         pricing_rules, system_metrics, last_simulation_update>>
          /\ \E failed \in 1 .. 5 :
                /\ \A k \in 1 .. 4 :
                      /\ k < failed =>
                            files'[Collections[k]]
                               = [some |-> TRUE, val |-> Snapshot(Collections[k])]
                      /\ k = failed =>
                            files'[Collections[k]] \in {files[Collections[k]], Torn}
                      /\ k > failed => files'[Collections[k]] = files[Collections[k]]
                /\ result'.ok <=> failed = 5
      ]_vars

\* a save failed at the bookings after a booking was made: the flights and
\* aircraft files hold the current collections, the bookings file does not
\* hold the booking and the airports file is as loaded
C36_Witness ==
    /\ result.op = "save_all_data" /\ ~ result.ok
    /\ Len(bookings) = 1
    /\ files.flights = Some(flights)
    /\ files.aircraft = Some(aircraft)
    /\ files.bookings = Torn
    /\ files.airports = None

(* ------------------- delays over any status (C37) ---------------------- *)

\* DataManager::new over a data directory whose flight RIA101 has any
\* status, and a SuperAdmin session stored by the caller
InitOverride ==
    /\ now = T0
    /\ \E status \in FlightStatuses :
          flights = [InitialFlights EXCEPT !["F1"].status = status]
    /\ aircraft = [id \in AircraftIds |-> [status |-> "Active"]]
    /\ bookings = <<>>
    /\ current_admin = Some([id |-> 0, username |-> "user", level |-> "SuperAdmin"])
    /\ audit_log = <<>>
    /\ pricing_rules = DefaultRules
    /\ system_metrics =
          [update_aircraft_metrics(update_flight_metrics(SystemMetricsNew, flights),
                                   aircraft)
           EXCEPT !.total_bookings = Len(bookings)]
    /\ last_simulation_update = now
    /\ result = Result("new", Ok(0))
    /\ files = FilesLoaded

\* the delays the admin types for flight RIA101: negative, zero, and two
\* positive ones
DelaysTyped == {-5, 0, 15, 20}

\* the admin types a delay for flight RIA101
SetDelayRIA101 ==
    \E delay_minutes \in DelaysTyped : set_flight_delay("RIA101", delay_minutes)

\* flight RIA101 delayed, booked and simulated as time passes
SpecOverride ==
    InitOverride /\ [][Tick \/ SetDelayRIA101 \/ CreateBookingRIA101
               \/ update_simulation]_vars

\* C37: a successful set_flight_delay(RIA101, minutes) leaves the flight
\* Delayed(minutes) when minutes > 0 and OnTime otherwise, whatever its
\* status was, Boarding, Departed, Arrived and Cancelled included; if its
\* departure is still in the future, the flight is then available for booking.
C37_DelayOverwritesStatus ==
    [][ \A delay_minutes \in DelaysTyped :
          set_flight_delay("RIA101", delay_minutes) /\ result'.ok =>
             /\ flights'["F1"].status
                   = IF delay_minutes > 0 THEN Delayed(delay_minutes) ELSE OnTime
             /\ flights'["F1"].departure_time > now' =>
                   is_available_for_booking(flights'["F1"], now')
      ]_vars

\* the cancelled flight RIA101 was delayed (the log holds the old status),
\* then booked, and the simulator has moved it on to Boarding
C37_Witness ==
    /\ \E i \in 1 .. Len(audit_log) :
          /\ audit_log[i].action_type = "SET_DELAY"
          /\ audit_log[i].old_value = Some("Cancelled")
    /\ \E i \in 1 .. Len(bookings) :
          bookings[i].flight_id = "F1" /\ bookings[i].status = "Confirmed"
    /\ flights["F1"].status = Boarding

(* ------------------- delays accumulate (C38) --------------------------- *)

\* C38: no step moves an arrival time back or changes a departure time; a
\* successful set_flight_delay(RIA101, minutes) moves the arrival time on
\* by minutes when minutes > 0, on top of every earlier delay, and leaves
\* it alone otherwise; update_simulation starts the boarding of RIA101, and
\* create_booking books it, by the departure time the flight was loaded
\* with.
C38_DelaysAccumulate ==
    /\ [][ \A id \in FlightIds :
             /\ flights'[id].arrival_time >= flights[id].arrival_time
             /\ flights'[id].departure_time = flights[id].departure_time ]_vars
    /\ [][ \A delay_minutes \in DelaysTyped :
             set_flight_delay("RIA101", delay_minutes) /\ result'.ok =>
                /\ flights'["F1"].arrival_time
                      = flights["F1"].arrival_time
                        + (IF delay_minutes > 0 THEN delay_minutes * 60 ELSE 0)
                /\ delay_minutes > 0 => flights'["F1"].status = Delayed(delay_minutes)
          ]_vars
    /\ [][ update_simulation /\ flights["F1"].status.kind \in {"OnTime", "Delayed"}
             /\ flights'["F1"].status = Boarding =>
                /\ now < InitialFlights["F1"].departure_time
                /\ now >= InitialFlights["F1"].departure_time
                            - BoardingWindowMinutes * 60 ]_vars
    /\ [][ CreateBookingRIA101 /\ result'.ok /\ Len(bookings') = Len(bookings) + 1
             => now < InitialFlights["F1"].departure_time ]_vars

\* RIA101 delayed by 15 and then by 20 minutes: its arrival is 35 minutes
\* late, its status shows 20, and it boards by its original departure time
C38_Witness ==
    /\ Len(audit_log) = 2
    /\ audit_log[1].new_value = Some("Delayed 15 min")
    /\ audit_log[2].new_value = Some("Delayed 20 min")
    /\ flights["F1"].arrival_time = InitialFlights["F1"].arrival_time + 35 * 60
    /\ flights["F1"].departure_time = InitialFlights["F1"].departure_time
    /\ flights["F1"].status = Boarding
    /\ now = T0 + 60

(* -------------------- every flight arrives (C39) ----------------------- *)

\* an instant past every arrival time a flight can have: the latest
\* arrival on file is 12 hours after T0, and RIA101 arrives 32 minutes
\* after T0 plus its delays
Horizon == T0 + 13 * 3600

\* time advancing without bound.  Up to the horizon the clock moves to a
\* later one of the instants at which it is read.  From the horizon on every departure and arrival time is
\* in the past whatever the clock reads, so that only the time since the
\* last run matters: the clock is kept at the horizon and a minute or more
\* passing is recorded in last_simulation_update, which then stands for
\* "a cooldown or more ago".
ElapseForever ==
    /\ IF now < Horizon
       THEN /\ \E u \in {T0 + 60, T0 + 1860, T0 + 1920, T0 + 4 * 3600, Horizon} :
                  u > now /\ now' = u
            /\ UNCHANGED last_simulation_update
       ELSE /\ now' = now
            /\ last_simulation_update' =
                  IF last_simulation_update > now - CooldownSeconds
                  THEN now - CooldownSeconds ELSE last_simulation_update
    /\ UNCHANGED <<flights, aircraft, bookings, current_admin, audit_log,
                   pricing_rules, system_metrics, result, files>>

\* the simulator polled for ever while the admin delays flight RIA101:
\* time advances and the polling goes on; the delays, which the audit log
\* has room for MaxLog of, come to an end
SpecForever ==
    InitOverride /\ [][ElapseForever \/ update_simulation \/ SetDelayRIA101]_vars
       /\ WF_vars(ElapseForever) /\ WF_vars(update_simulation)

\* C39: time advancing without bound, the simulator polled again and again
\* and the delays coming to an end, every flight that is not Cancelled is
\* from some point on Arrived for good, and every InFlight aircraft is
\* Active again later.
C39_EveryFlightArrives ==
    /\ \A id \in FlightIds :
          [](flights[id].status # Cancelled => <>[](flights[id].status = Arrived))
    /\ \A id \in AircraftIds :
          (aircraft[id].status = "InFlight") ~> (aircraft[id].status = "Active")

\* RIA101 was delayed after it had arrived and has arrived again; RIA201
\* has arrived and the fleet is Active
C39_Witness ==
    /\ \E i \in 1 .. Len(audit_log) :
          /\ audit_log[i].action_type = "SET_DELAY"
          /\ audit_log[i].old_value = Some("Arrived")
    /\ flights["F1"].status = Arrived
    /\ flights["F2"].status = Arrived
    /\ \A id \in AircraftIds : aircraft[id].status = "Active"
    /\ system_metrics.active_aircraft = 2
    /\ result.op = "update_simulation"

(* ------------------------- late runs (C40) ----------------------------- *)

\* the place of a status in the order {OnTime, Delayed} < Boarding <
\* Departed < Arrived; Cancelled is outside it
Stage(status) ==
    CASE status.kind \in {"OnTime", "Delayed"} -> 1
      [] status.kind = "Boarding" -> 2
      [] status.kind = "Departed" -> 3
      [] status.kind = "Arrived" -> 4
      [] OTHER -> 0

\* C40: an update_simulation step never lowers the stage of a flight and
\* moves a Boarding or Departed flight on by one stage at most; on an
\* effective run an OnTime or Delayed flight whose departure has passed
\* becomes Departed if its arrival is still ahead and Arrived otherwise,
\* and is not Boarding in between.
C40_StagesNeverGoBack ==
    [][ update_simulation =>
          \A id \in DOMAIN flights :
             /\ Stage(flights'[id].status) >= Stage(flights[id].status)
             /\ flights[id].status.kind \in {"Boarding", "Departed"}
                => Stage(flights'[id].status) <= Stage(flights[id].status) + 1
             /\ ( /\ now - last_simulation_update >= CooldownSeconds
                  /\ flights[id].status.kind \in {"OnTime", "Delayed"}
                  /\ flights[id].departure_time <= now )
                => flights'[id].status
                      = IF flights[id].arrival_time > now THEN Departed ELSE Arrived
      ]_vars

\* RIA201, OnTime when loaded and never delayed, is Departed after the run
\* made at its departure time.  It was never Boarding: the clock was not
\* read in the 30 minutes before its departure.
C40_Witness ==
    /\ flights["F2"].status = Departed
    /\ now = flights["F2"].departure_time
    /\ last_simulation_update = now
    /\ result.op = "update_simulation"

====
